---- MODULE Spec2Model ----
(***************************************************************************)
(* State-machine model of tscircuit/solver-utils: the BaseSolver stepping  *)
(* contract (setup / step / solve, iteration budget, error capture) and    *)
(* the BasePipelineSolver stage sequencing built on it.                    *)
(*                                                                         *)
(* A solver object is a record holding the fields of BaseSolver plus the   *)
(* fields of the concrete class.  Methods are operators from an object to  *)
(* a result [obj |-> the object after the call, exc |-> the exception the  *)
(* call propagates or NoException].  The variable solver is the object the *)
(* caller drives; call records the last call made on it and its outcome.   *)
(***************************************************************************)
EXTENDS Integers, Sequences, FiniteSets, TLC

(***************************************************************************)
(* Bounds of the model                                                     *)
(***************************************************************************)
\* largest MAX_ITERATIONS given to a plain solver or to a stage's child
MaxIterations == 3
\* largest MAX_ITERATIONS given to a pipeline
MaxPipelineIterations == 6
\* largest counter target / targetValue of a problem
MaxTarget == 3
\* largest number of stage definitions in a pipelineDef
MaxStages == 2
\* last reading of the clocks (performance.now, Date.now)
MaxTime == 1
\* number of solvers composed by hand into a chain
MaxChainSolvers == 3
\* largest number of calls in which a subclass's _setup throws
MaxSetupFailures == 2
\* number of intervals the toolbar registers before Animate is left alone
MaxIntervals == 2

VARIABLES solver, call

vars == <<solver, call>>

(***************************************************************************)
(* JavaScript values                                                       *)
(***************************************************************************)
\* an optional value (T | undefined, T | null) is a set with at most one element
None == {}

Some(v) == {v}

\* the one element of a non-empty optional value
The(opt) == CHOOSE v \in opt : TRUE

\* the reference values an activeSubSolver field holds besides a stage's child
Undefined == "undefined"

Null == "null"

\* `error: string | null`: a message is the sequence of the parts of its
\* template literal, and null is the empty sequence
NullError == << >>

\* new Error(message)
Error(message) == [name |-> "Error", message |-> message]

\* `${e}` for an Error e: the parts of "<name>: <message>"
String(e) == <<e.name, ":", e.message>>

\* the result of a call that returned normally
NoException == [name |-> "no exception", message |-> ""]

Return(obj) == [obj |-> obj, exc |-> NoException]

Throw(obj, e) == [obj |-> obj, exc |-> e]

\* a map m with key k set to v (obj[k] = v)
Put(m, k, v) == [x \in (DOMAIN m) \cup {k} |-> IF x = k THEN v ELSE m[x]]

EmptyMap == [x \in {} |-> 0]

RECURSIVE GCD(_, _)
GCD(a, b) == IF b = 0 THEN a ELSE GCD(b, a % b)

\* the number n / d (d > 0, n >= 0) in lowest terms
Rat(n, d) == LET g == GCD(n, d) IN [num |-> n \div g, den |-> d \div g]

RatLeq(p, q) == p.num * q.den <= q.num * p.den

RatLess(p, q) == p.num * q.den < q.num * p.den

(***************************************************************************)
(* The concrete classes.  A class is a record: name is constructor.name    *)
(* and selects the overridden hooks; MAX_ITERATIONS is the budget the      *)
(* class sets; acceptOnFinal says whether the class overrides              *)
(* tryFinalAcceptance with a hook that accepts the approximate solution.   *)
(***************************************************************************)
\* class TestSolver: counts current up to target
TestSolverClass(target, maxIterations, accept) ==
    [name |-> "TestSolver", MAX_ITERATIONS |-> maxIterations,
     acceptOnFinal |-> accept, target |-> target]

\* class InfiniteSolver: _step never sets solved
InfiniteSolverClass(maxIterations, accept) ==
    [name |-> "InfiniteSolver", MAX_ITERATIONS |-> maxIterations,
     acceptOnFinal |-> accept]

\* class ErrorSolver: _step throws
ErrorSolverClass(maxIterations, accept) ==
    [name |-> "ErrorSolver", MAX_ITERATIONS |-> maxIterations,
     acceptOnFinal |-> accept]

\* class CoarsePositioningSolver: walks towards the target one step at a time
\* and records the distance in stats; distance is the whole number of steps
\* between the initial position and the target
CoarsePositioningSolverClass(distance, maxIterations, accept) ==
    [name |-> "CoarsePositioningSolver", MAX_ITERATIONS |-> maxIterations,
     acceptOnFinal |-> accept, distance |-> distance]

\* a subclass whose _setup throws in its first setupFailures calls and whose
\* _step is BaseSolver's empty one
ThrowingSetupSolverClass(setupFailures, maxIterations, accept) ==
    [name |-> "ThrowingSetupSolver", MAX_ITERATIONS |-> maxIterations,
     acceptOnFinal |-> accept, setupFailures |-> setupFailures]

\* the classes of a pipeline's stages: StepOneSolver counts result up by one
\* until it reaches half of the problem's targetValue, StepTwoSolver counts
\* it up by two until it reaches target, DataProcessorSolver doubles the
\* problem's inputData in one step and declares it as its output,
\* FailingSolver throws
StageSolverClass(name, maxIterations, accept) ==
    [name |-> name, MAX_ITERATIONS |-> maxIterations, acceptOnFinal |-> accept]

\* the fields a class adds to BaseSolver's, as its constructor leaves them
\* when called with params
OwnFields(cls, params) ==
    CASE cls.name = "TestSolver" -> [current |-> 0, target |-> cls.target]
      [] cls.name = "CoarsePositioningSolver" -> [distance |-> cls.distance]
      [] cls.name = "StepOneSolver" ->
            [input |-> params, result |-> params.initialValue]
      [] cls.name = "StepTwoSolver" ->
            [target |-> params.target, result |-> params.startValue]
      [] cls.name = "DataProcessorSolver" ->
            [input |-> params,
             result |-> [processedData |-> << >>,
                         metadata |-> [count |-> 0, sum |-> 0]]]
      [] cls.name = "ValidatorSolver" ->
            [processedData |-> params.processedData,
             rules |-> params.rules,
             result |-> [isValid |-> FALSE, errors |-> << >>, validCount |-> 0]]
      [] OTHER -> EmptyMap

\* the fields of BaseSolver after construction; setupRuns, stepRuns and
\* acceptRuns count the runs of the hooks _setup, _step, tryFinalAcceptance,
\* and stepsBeforeSetup the runs of _step that no run of _setup preceded
BaseSolver(cls) ==
    [class |-> cls,
     MAX_ITERATIONS |-> cls.MAX_ITERATIONS,
     solved |-> FALSE,
     failed |-> FALSE,
     iterations |-> 0,
     progress |-> Rat(0, 1),
     error |-> NullError,
     activeSubSolver |-> Undefined,
     timeToSolve |-> None,
     stats |-> EmptyMap,
     _setupDone |-> FALSE,
     setupRuns |-> 0,
     stepRuns |-> 0,
     stepsBeforeSetup |-> 0,
     acceptRuns |-> 0]

\* new cls(params) for a class that is no pipeline
New(cls, params) == BaseSolver(cls) @@ [own |-> OwnFields(cls, params)]

IsPipeline(self) == "pipelineDef" \in DOMAIN self

(***************************************************************************)
(* The hooks of the plain classes                                          *)
(***************************************************************************)
\* TestSolver._setup and the throwing _setup of ThrowingSetupSolver; every
\* other class keeps BaseSolver's empty _setup
_setup(self) ==
    LET ran == [self EXCEPT !.setupRuns = @ + 1]
    IN  IF self.class.name = "TestSolver"
        THEN Return([ran EXCEPT !.own.current = 0])
        ELSE IF self.class.name = "ThrowingSetupSolver"
                /\ self.setupRuns < self.class.setupFailures
        THEN Throw(ran, Error("setup failed"))
        ELSE Return(ran)

\* a counter that declares solved one step late
TestSolver_stepLate(self) ==
    IF self.own.current >= self.own.target
    THEN Return([self EXCEPT !.solved = TRUE])
    ELSE Return([self EXCEPT !.own.current = @ + 1])

TestSolver_step(self) ==
    LET s1 == [self EXCEPT !.own.current = @ + 1]
    IN  IF s1.own.current >= s1.own.target
        THEN Return([s1 EXCEPT !.solved = TRUE])
        ELSE Return(s1)

InfiniteSolver_step(self) == Return(self)

ErrorSolver_step(self) == Throw(self, Error("Test error"))

CoarsePositioningSolver_step(self) ==
    IF self.own.distance < 1
    THEN Return([self EXCEPT !.solved = TRUE])
    ELSE Return([self EXCEPT !.own.distance = @ - 1,
                             !.stats = [distanceToTarget |-> self.own.distance]])

\* tryFinalAcceptance: empty in BaseSolver; an overriding class accepts
tryFinalAcceptance(self) ==
    LET ran == [self EXCEPT !.acceptRuns = @ + 1]
    IN  IF self.class.acceptOnFinal THEN [ran EXCEPT !.solved = TRUE] ELSE ran

RECURSIVE SumSeq(_)
SumSeq(q) == IF q = << >> THEN 0 ELSE Head(q) + SumSeq(Tail(q))

StepOneSolver_step(self) ==
    LET s1 == [self EXCEPT !.own.result = @ + 1]
    IN  IF 2 * s1.own.result >= s1.own.input.targetValue
        THEN Return([s1 EXCEPT !.solved = TRUE])
        ELSE Return(s1)

StepTwoSolver_step(self) ==
    LET s1 == [self EXCEPT !.own.result = @ + 2]
    IN  IF s1.own.result >= s1.own.target
        THEN Return([s1 EXCEPT !.solved = TRUE])
        ELSE Return(s1)

DataProcessorSolver_step(self) ==
    LET data == self.own.input.inputData
        processed == [i \in DOMAIN data |-> data[i] * 2]
    IN  Return([self EXCEPT
                  !.own.result = [processedData |-> processed,
                                  metadata |-> [count |-> Len(processed),
                                                sum |-> SumSeq(processed)]],
                  !.solved = TRUE])

\* the error messages of ValidatorSolver._step for the values of data, in
\* order: `Value ${value} below minimum ${min}` / `... above maximum ${max}`
RECURSIVE ValidationErrors(_, _)
ValidationErrors(data, rules) ==
    IF data = << >> THEN << >>
    ELSE LET value == Head(data)
             rest == ValidationErrors(Tail(data), rules)
         IN  IF value < rules.minValue
             THEN <<<<"Value", value, "below minimum", rules.minValue>>>> \o rest
             ELSE IF value > rules.maxValue
             THEN <<<<"Value", value, "above maximum", rules.maxValue>>>> \o rest
             ELSE rest

ValidatorSolver_step(self) ==
    LET data == self.own.processedData.processedData
        errors == ValidationErrors(data, self.own.rules)
    IN  Return([self EXCEPT
                  !.own.result = [isValid |-> Len(errors) = 0,
                                  errors |-> errors,
                                  validCount |-> Len(data) - Len(errors)],
                  !.solved = TRUE])

FailingSolver_step(self) == Throw(self, Error("Intentional test error"))

\* getOutput: null in BaseSolver, the result in DataProcessorSolver and in
\* ValidatorSolver
getOutput(self) ==
    IF self.class.name \in {"DataProcessorSolver", "ValidatorSolver"}
    THEN Some(self.own.result)
    ELSE None

(***************************************************************************)
(* BasePipelineSolver                                                      *)
(***************************************************************************)
\* definePipelineStep: getConstructorParams names the rule that derives the
\* child's constructor input from the pipeline instance; onSolved says
\* whether the stage has a completion callback
definePipelineStep(solverName, solverClass, getConstructorParams, onSolved) ==
    [solverName |-> solverName,
     solverClass |-> solverClass,
     getConstructorParams |-> getConstructorParams,
     onSolved |-> onSolved]

\* a pipeline class: a class with its pipelineDef
PipelineClass(name, maxIterations, accept, pipelineDef) ==
    [name |-> name, MAX_ITERATIONS |-> maxIterations,
     acceptOnFinal |-> accept, pipelineDef |-> pipelineDef]

\* new cls(inputProblem) for a pipeline class; named holds the properties
\* this[solverName], consoleLog what the onSolved callbacks have logged
BasePipelineSolver(cls, inputProblem) ==
    BaseSolver(cls) @@
    [startTimeOfStage |-> EmptyMap,
     endTimeOfStage |-> EmptyMap,
     timeSpentOnStage |-> EmptyMap,
     firstIterationOfStage |-> EmptyMap,
     currentPipelineStageIndex |-> 0,
     inputProblem |-> inputProblem,
     pipelineOutputs |-> EmptyMap,
     pipelineDef |-> cls.pipelineDef,
     named |-> EmptyMap,
     consoleLog |-> << >>]

\* whether this.activeSubSolver is truthy, i.e. refers to a child
HasActiveSubSolver(self) == self.activeSubSolver \notin {Undefined, Null}

\* the object this.activeSubSolver refers to
ActiveSubSolver(self) == self.named[self.activeSubSolver]

\* this.pipelineDef[this.currentPipelineStageIndex], undefined past the end
CurrentStageDef(self) ==
    IF self.currentPipelineStageIndex < Len(self.pipelineDef)
    THEN Some(self.pipelineDef[self.currentPipelineStageIndex + 1])
    ELSE None

getCurrentStageName(self) ==
    IF CurrentStageDef(self) = None THEN "none"
    ELSE The(CurrentStageDef(self)).solverName

getSolver(self, stageName) ==
    IF stageName \in DOMAIN self.named THEN Some(self.named[stageName]) ELSE None

getStageOutput(self, stageName) ==
    IF stageName \in DOMAIN self.pipelineOutputs
    THEN Some(self.pipelineOutputs[stageName])
    ELSE None

hasStageOutput(self, stageName) == stageName \in DOMAIN self.pipelineOutputs

getAllOutputs(self) == self.pipelineOutputs

\* constructor parameters taken from the problem alone, as they would be
\* before any stage has run
ConstructorParamsBeforeAnyStage(self, def) ==
    CASE def.getConstructorParams = "inputProblem" -> self.inputProblem
      [] def.getConstructorParams = "previousResult" ->
            [startValue |-> self.inputProblem.initialValue,
             target |-> self.inputProblem.targetValue]
      [] def.getConstructorParams = "previousOutput" ->
            [processedData |-> [processedData |-> << >>,
                                metadata |-> [count |-> 0, sum |-> 0]],
             rules |-> self.inputProblem.validationRules]
      [] OTHER -> Undefined

\* the stage definition's getConstructorParams(instance)
ConstructorParams(self, def) ==
    CASE def.getConstructorParams = "inputProblem" -> self.inputProblem
      [] def.getConstructorParams = "previousResult" ->
            [startValue |->
               The(getSolver(self,
                     self.pipelineDef[self.currentPipelineStageIndex].solverName)
                  ).own.result,
             target |-> self.inputProblem.targetValue]
      [] def.getConstructorParams = "previousOutput" ->
            [processedData |->
               The(getStageOutput(self,
                     self.pipelineDef[self.currentPipelineStageIndex].solverName)),
             rules |-> self.inputProblem.validationRules]
      [] OTHER -> Undefined

\* the stage definition's onSolved callback, if any: it is passed the
\* pipeline and logs what it reads there: its stage's child and stored
\* output, the active child, the stage index, the iteration count
onSolved(self, def) ==
    IF def.onSolved
    THEN [self EXCEPT !.consoleLog =
            Append(@, [stage |-> def.solverName,
                       solver |-> getSolver(self, def.solverName),
                       output |-> getStageOutput(self, def.solverName),
                       activeSubSolver |-> self.activeSubSolver,
                       currentPipelineStageIndex |-> self.currentPipelineStageIndex,
                       iterations |-> self.iterations])]
    ELSE self

\* a stage progress that counts the completed stages only
getStageProgressOfCompletedStages(self) ==
    LET totalStages == Len(self.pipelineDef)
    IN  IF totalStages = 0 THEN Rat(1, 1)
        ELSE Rat(self.currentPipelineStageIndex, totalStages)

getStageProgress(self) ==
    LET totalStages == Len(self.pipelineDef)
        currentStageProgress ==
            IF HasActiveSubSolver(self) THEN ActiveSubSolver(self).progress
            ELSE Rat(0, 1)
    IN  IF totalStages = 0 THEN Rat(1, 1)
        ELSE Rat(self.currentPipelineStageIndex * currentStageProgress.den
                   + currentStageProgress.num,
                 currentStageProgress.den * totalStages)

\* this.pipelineDef.findIndex((s) => s.solverName === name), from 0, -1 if
\* there is none
findIndex(self, name) ==
    LET found == {i \in DOMAIN self.pipelineDef : self.pipelineDef[i].solverName = name}
    IN  IF found = {} THEN 0 - 1
        ELSE (CHOOSE i \in found : \A j \in found : i <= j) - 1

\* m[name] || 0
OrZero(m, name) == IF name \in DOMAIN m THEN m[name] ELSE 0

\* lines 237-267: timeSpent, iterations and completed of every stage
getStageStats(self) ==
    [name \in {self.pipelineDef[i].solverName : i \in DOMAIN self.pipelineDef} |->
        [timeSpent |-> OrZero(self.timeSpentOnStage, name),
         iterations |->
            IF name = getCurrentStageName(self)
            THEN self.iterations - OrZero(self.firstIterationOfStage, name)
            ELSE 0,
         completed |-> self.currentPipelineStageIndex > findIndex(self, name)]]

\* a completion that moves the stage index on by two
StageSolvedSkipping(self, def, t) ==
    [onSolved(self, def) EXCEPT !.activeSubSolver = Null,
                                !.currentPipelineStageIndex = @ + 2]

\* a completion that stores the child's output even when it is null
StageSolvedStoringNull(self, def, t) ==
    LET output == getOutput(ActiveSubSolver(self))
        stored == IF output # None THEN The(output) ELSE Null
    IN  [onSolved(self, def) EXCEPT
           !.pipelineOutputs = Put(@, def.solverName, stored),
           !.activeSubSolver = Null,
           !.currentPipelineStageIndex = @ + 1]

\* a completion that files the child's output under the child's class name
StageSolvedKeyedByClass(self, def, t) ==
    LET output == getOutput(ActiveSubSolver(self))
        stored == IF output # None
                  THEN Put(self.pipelineOutputs, def.solverClass.name, The(output))
                  ELSE self.pipelineOutputs
    IN  [onSolved(self, def) EXCEPT
           !.pipelineOutputs = stored,
           !.activeSubSolver = Null,
           !.currentPipelineStageIndex = @ + 1]

\* a completion that does not store the child's output
StageSolvedForgettingOutput(self, def, t) ==
    [onSolved(self, def) EXCEPT !.activeSubSolver = Null,
                                !.currentPipelineStageIndex = @ + 1]

\* a completion that keeps the solved child as the active child
StageSolvedKeepingChild(self, def, t) ==
    LET name == def.solverName
        output == getOutput(ActiveSubSolver(self))
        s1 == [self EXCEPT
                 !.endTimeOfStage = Put(@, name, t),
                 !.timeSpentOnStage = Put(@, name, t - self.startTimeOfStage[name])]
        s2 == IF output # None
              THEN [s1 EXCEPT !.pipelineOutputs = Put(@, name, The(output))]
              ELSE s1
        s3 == onSolved(s2, def)
    IN  [s3 EXCEPT !.currentPipelineStageIndex = @ + 1]

\* a completion that invokes the callback before the output is stored
StageSolvedCallbackFirst(self, def, t) ==
    LET name == def.solverName
        output == getOutput(ActiveSubSolver(self))
        s1 == onSolved([self EXCEPT
                 !.endTimeOfStage = Put(@, name, t),
                 !.timeSpentOnStage = Put(@, name, t - self.startTimeOfStage[name])],
                 def)
        s2 == IF output # None
              THEN [s1 EXCEPT !.pipelineOutputs = Put(@, name, The(output))]
              ELSE s1
    IN  [s2 EXCEPT !.activeSubSolver = Null,
                   !.currentPipelineStageIndex = @ + 1]

\* a completion that marks the pipeline solved in the step() in which its
\* last child solves
StageSolvedAndDone(self, def, t) ==
    LET name == def.solverName
        output == getOutput(ActiveSubSolver(self))
        s1 == [self EXCEPT
                 !.endTimeOfStage = Put(@, name, t),
                 !.timeSpentOnStage = Put(@, name, t - self.startTimeOfStage[name])]
        s2 == IF output # None
              THEN [s1 EXCEPT !.pipelineOutputs = Put(@, name, The(output))]
              ELSE s1
        s3 == onSolved(s2, def)
    IN  [s3 EXCEPT !.activeSubSolver = Null,
                   !.currentPipelineStageIndex = @ + 1,
                   !.solved = (self.currentPipelineStageIndex + 1 = Len(self.pipelineDef))]

\* lines 181-195: the active child has become solved
StageSolved(self, def, t) ==
    LET name == def.solverName
        output == getOutput(ActiveSubSolver(self))
        s1 == [self EXCEPT
                 !.endTimeOfStage = Put(@, name, t),
                 !.timeSpentOnStage = Put(@, name, t - self.startTimeOfStage[name])]
        s2 == IF output # None
              THEN [s1 EXCEPT !.pipelineOutputs = Put(@, name, The(output))]
              ELSE s1
        s3 == onSolved(s2, def)
    IN  [s3 EXCEPT !.activeSubSolver = Null,
                   !.currentPipelineStageIndex = @ + 1]

\* a failure that marks the pipeline failed without taking the child's error
StageFailedWithoutError(self) ==
    [self EXCEPT !.failed = TRUE,
                 !.activeSubSolver = Null]

\* lines 196-200: the active child has become failed
StageFailed(self) ==
    [self EXCEPT !.error = ActiveSubSolver(self).error,
                 !.failed = TRUE,
                 !.activeSubSolver = Null]

\* a stage start that takes the first-iteration marker before the step is
\* counted
StartStageBeforeCounting(self, def, t) ==
    LET name == def.solverName
        child == New(def.solverClass, ConstructorParams(self, def))
    IN  [self EXCEPT !.activeSubSolver = name,
                     !.named = Put(@, name, child),
                     !.timeSpentOnStage = Put(@, name, 0),
                     !.startTimeOfStage = Put(@, name, t),
                     !.firstIterationOfStage = Put(@, name, self.iterations - 1)]

\* lines 204-211: the stage's child is constructed
StartStage(self, def, t) ==
    LET name == def.solverName
        child == New(def.solverClass, ConstructorParams(self, def))
    IN  [self EXCEPT !.activeSubSolver = name,
                     !.named = Put(@, name, child),
                     !.timeSpentOnStage = Put(@, name, 0),
                     !.startTimeOfStage = Put(@, name, t),
                     !.firstIterationOfStage = Put(@, name, self.iterations)]

RECURSIVE step(_, _)

\* a pipeline that catches the child's exception and handles the child as
\* one that has become failed
AfterSubSolverStepCatching(self, def, r, t) ==
    IF r.obj.solved
    THEN Return(StageSolved([self EXCEPT !.named[self.activeSubSolver] = r.obj],
                            def, t))
    ELSE IF r.obj.failed
    THEN Return(StageFailed([self EXCEPT !.named[self.activeSubSolver] = r.obj]))
    ELSE Return([self EXCEPT !.named[self.activeSubSolver] = r.obj])

\* lines 181-201: the pipeline after activeSubSolver.step() has ended with
\* result r; an exception of the child leaves _step at line 180
AfterSubSolverStep(self, def, r, t) ==
    IF r.exc # NoException
    THEN Throw([self EXCEPT !.named[self.activeSubSolver] = r.obj], r.exc)
    ELSE IF r.obj.solved
    THEN Return(StageSolved([self EXCEPT !.named[self.activeSubSolver] = r.obj],
                            def, t))
    ELSE IF r.obj.failed
    THEN Return(StageFailed([self EXCEPT !.named[self.activeSubSolver] = r.obj]))
    ELSE Return([self EXCEPT !.named[self.activeSubSolver] = r.obj])

\* a pipeline _step that declares solved as soon as one stage has completed
PipelineStepSolvingEarly(self, t) ==
    IF CurrentStageDef(self) = None \/ self.currentPipelineStageIndex > 0
    THEN Return([self EXCEPT !.solved = TRUE])
    ELSE IF HasActiveSubSolver(self)
    THEN AfterSubSolverStep(self, The(CurrentStageDef(self)),
                            step(ActiveSubSolver(self), t), t)
    ELSE Return(StartStage(self, The(CurrentStageDef(self)), t))

\* a pipeline _step that delegates two step() calls to the active child
PipelineStepDelegatingTwice(self, t) ==
    IF CurrentStageDef(self) = None
    THEN Return([self EXCEPT !.solved = TRUE])
    ELSE IF HasActiveSubSolver(self)
    THEN AfterSubSolverStep(self, The(CurrentStageDef(self)),
                            step(step(ActiveSubSolver(self), t).obj, t), t)
    ELSE Return(StartStage(self, The(CurrentStageDef(self)), t))

\* a pipeline _step that returns without setting solved when no stage is left
PipelineStepWithoutEnd(self, t) ==
    IF CurrentStageDef(self) = None
    THEN Return(self)
    ELSE IF HasActiveSubSolver(self)
    THEN AfterSubSolverStep(self, The(CurrentStageDef(self)),
                            step(ActiveSubSolver(self), t), t)
    ELSE Return(StartStage(self, The(CurrentStageDef(self)), t))

BasePipelineSolver_step(self, t) ==
    IF CurrentStageDef(self) = None
    THEN Return([self EXCEPT !.solved = TRUE])
    ELSE IF HasActiveSubSolver(self)
    THEN AfterSubSolverStep(self, The(CurrentStageDef(self)),
                            step(ActiveSubSolver(self), t), t)
    ELSE Return(StartStage(self, The(CurrentStageDef(self)), t))

(***************************************************************************)
(* BaseSolver: setup, step, solve                                          *)
(***************************************************************************)
\* this._step(), dispatched on the class
_step(self, t) ==
    LET ran == [self EXCEPT
                  !.stepRuns = @ + 1,
                  !.stepsBeforeSetup = @ + (IF self.setupRuns = 0 THEN 1 ELSE 0)]
    IN  CASE IsPipeline(self) -> BasePipelineSolver_step(ran, t)
          [] self.class.name = "TestSolver" -> TestSolver_step(ran)
          [] self.class.name = "InfiniteSolver" -> InfiniteSolver_step(ran)
          [] self.class.name = "ErrorSolver" -> ErrorSolver_step(ran)
          [] self.class.name = "CoarsePositioningSolver" ->
                CoarsePositioningSolver_step(ran)
          [] self.class.name = "StepOneSolver" -> StepOneSolver_step(ran)
          [] self.class.name = "StepTwoSolver" -> StepTwoSolver_step(ran)
          [] self.class.name = "DataProcessorSolver" -> DataProcessorSolver_step(ran)
          [] self.class.name = "ValidatorSolver" -> ValidatorSolver_step(ran)
          [] self.class.name = "FailingSolver" -> FailingSolver_step(ran)
          [] self.class.name = "ThrowingSetupSolver" -> Return(ran)

\* "computeProgress" in this
HasComputeProgress(self) == IsPipeline(self) \/ self.class.name = "TestSolver"

computeProgress(self) ==
    IF IsPipeline(self) THEN getStageProgress(self)
    ELSE Rat(self.own.current, self.own.target)

\* a setup() that runs the hook whenever it is called
SetupEveryTime(self) ==
    IF _setup(self).exc # NoException THEN _setup(self)
    ELSE Return([_setup(self).obj EXCEPT !._setupDone = TRUE])

\* a setup() that sets _setupDone before it runs the hook
SetupMarkingDoneFirst(self) ==
    IF self._setupDone THEN Return(self)
    ELSE IF _setup(self).exc # NoException
    THEN Throw([_setup(self).obj EXCEPT !._setupDone = TRUE], _setup(self).exc)
    ELSE Return([_setup(self).obj EXCEPT !._setupDone = TRUE])

setup(self) ==
    IF self._setupDone THEN Return(self)
    ELSE LET r == _setup(self)
         IN  IF r.exc # NoException THEN r
             ELSE Return([r.obj EXCEPT !._setupDone = TRUE])

\* an early return that looks at solved alone
OnlySolved(self) == self.solved

\* lines 42-43: step() returns at once
AlreadyDone(self) == self.solved \/ self.failed

\* a catch block that records the failure without the error message
CatchWithoutMessage(self, e) == [self EXCEPT !.failed = TRUE]

\* lines 47-51: the catch block of step()
CatchError(self, e) ==
    [self EXCEPT !.error = <<self.class.name, "error:">> \o String(e),
                 !.failed = TRUE]

\* a budget test that lets the MAX_ITERATIONS-th step pass
OutOfIterationsLate(self) ==
    ~self.solved /\ self.iterations > self.MAX_ITERATIONS

\* the condition of lines 53 and 56
OutOfIterations(self) ==
    ~self.solved /\ self.iterations >= self.MAX_ITERATIONS

\* a budget check that never fails the solver
NeverOutOfIterations(self) == self

\* lines 57-59
FailOutOfIterations(self) ==
    [self EXCEPT !.error = <<self.class.name, "ran out of iterations">>,
                 !.failed = TRUE]

\* lines 61-64
UpdateProgress(self) ==
    IF HasComputeProgress(self)
    THEN [self EXCEPT !.progress = computeProgress(self)]
    ELSE self

\* lines 53-55
FinalAcceptance(self) ==
    IF OutOfIterations(self) THEN tryFinalAcceptance(self) ELSE self

\* lines 56-60
CheckOutOfIterations(self) ==
    IF OutOfIterations(self) THEN FailOutOfIterations(self) ELSE self

\* lines 47-64: step() after this._step() has ended with result r
AfterStepHook(r) ==
    IF r.exc # NoException
    THEN Throw(CatchError(r.obj, r.exc), r.exc)
    ELSE Return(UpdateProgress(CheckOutOfIterations(FinalAcceptance(r.obj))))

\* a step() that does not count the iteration
AfterSetupUncounted(r0, t) ==
    IF r0.exc # NoException THEN r0
    ELSE IF AlreadyDone(r0.obj) THEN r0
    ELSE AfterStepHook(_step(r0.obj, t))

\* lines 42-64: step() after the setup of lines 39-41 has ended with result r0
AfterSetup(r0, t) ==
    IF r0.exc # NoException THEN r0
    ELSE IF AlreadyDone(r0.obj) THEN r0
    ELSE AfterStepHook(_step([r0.obj EXCEPT !.iterations = @ + 1], t))

step(self, t) ==
    AfterSetup(IF ~self._setupDone THEN setup(self) ELSE Return(self), t)

\* more step() calls than any budget of the model allows
SolveFuel == MaxPipelineIterations + MaxIterations + 2

\* the while loop of solve() after n calls of step(): the object it leaves,
\* the exception it propagates, the number of step() calls it made, and
\* whether it is still looping when the fuel is used up
RECURSIVE solveLoop(_, _, _)

\* the loop after its (n+1)-th call of step() has ended with result r
AfterLoopStep(r, t, n) ==
    IF r.exc # NoException
    THEN [obj |-> r.obj, exc |-> r.exc, steps |-> n + 1, looping |-> FALSE]
    ELSE solveLoop(r.obj, t, n + 1)

solveLoop(self, t, n) ==
    IF self.solved \/ self.failed
    THEN [obj |-> self, exc |-> NoException, steps |-> n, looping |-> FALSE]
    ELSE IF n >= SolveFuel
    THEN [obj |-> self, exc |-> NoException, steps |-> n, looping |-> TRUE]
    ELSE AfterLoopStep(step(self, t), t, n)

\* a solve() that records the time also when step() throws
AfterLoopAlways(r, startTime, endTime) ==
    [r EXCEPT !.obj.timeToSolve = Some(endTime - startTime)]

\* lines 88-89, which an exception or an endless loop never reaches
AfterLoop(r, startTime, endTime) ==
    IF r.exc # NoException \/ r.looping THEN r
    ELSE [r EXCEPT !.obj.timeToSolve = Some(endTime - startTime)]

\* solve() when Date.now() returns startTime before the loop and endTime
\* after it, and performance.now() returns t during it
solve(self, startTime, endTime, t) ==
    AfterLoop(solveLoop(self, t, 0), startTime, endTime)

\* String.prototype.toLowerCase on the names that occur
toLowerCase(s) ==
    CASE s \in {"stepOneSolver", "STEPONESOLVER"} -> "steponesolver"
      [] s \in {"stepTwoSolver", "STEPTWOSOLVER"} -> "steptwosolver"
      [] s = "stepThreeSolver" -> "stepthreesolver"
      [] s = "stepFourSolver" -> "stepfoursolver"
      [] OTHER -> s

\* a comparison of stage names that tells upper case from lower case
SameStageNameExactly(current, stageName) == current = stageName

\* the negated loop condition of solveUntilStage, lines 215-217
SameStageName(current, stageName) == toLowerCase(current) = toLowerCase(stageName)

\* the while loop of solveUntilStage after n calls of step(): the object it
\* leaves, the exception it propagates and the number of step() calls made
RECURSIVE solveUntilStageLoop(_, _, _, _)

\* lines 218-219: the loop after its (n+1)-th step() has ended with result r
AfterUntilStep(r, stageName, t, n) ==
    IF r.exc # NoException \/ r.obj.failed \/ r.obj.solved
    THEN [obj |-> r.obj, exc |-> r.exc, steps |-> n + 1, looping |-> FALSE]
    ELSE solveUntilStageLoop(r.obj, stageName, t, n + 1)

solveUntilStageLoop(self, stageName, t, n) ==
    IF SameStageName(getCurrentStageName(self), stageName)
    THEN [obj |-> self, exc |-> NoException, steps |-> n, looping |-> FALSE]
    ELSE AfterUntilStep(step(self, t), stageName, t, n)

\* lines 214-221, when performance.now() returns t during the call
solveUntilStage(self, stageName, t) == solveUntilStageLoop(self, stageName, t, 0)

(***************************************************************************)
(* visualize and preview.  A GraphicsObject is a record of the sequences   *)
(* points, lines, rects, circles and texts (a missing key is the empty     *)
(* sequence); an element is a record of its properties.                    *)
(***************************************************************************)
EmptyGraphics ==
    [points |-> << >>, lines |-> << >>, rects |-> << >>, circles |-> << >>,
     texts |-> << >>]

\* a tagging that numbers the stages from one
TagStepFromOne(viz, i) ==
    [k \in DOMAIN viz |-> [j \in DOMAIN viz[k] |-> Put(viz[k][j], "step", i + 1)]]

\* viz with every element tagged with the stage's index (element.step = i)
TagStep(viz, i) ==
    [k \in DOMAIN viz |-> [j \in DOMAIN viz[k] |-> Put(viz[k][j], "step", i)]]

\* the visualize() of the classes that are no pipeline
PlainVisualize(self) ==
    CASE self.class.name = "TestSolver" ->
            [EmptyGraphics EXCEPT
               !.points = <<[x |-> self.own.current, y |-> 0]>>,
               !.lines = <<[points |-> <<[x |-> 0, y |-> 0],
                                          [x |-> self.own.current, y |-> 1]>>,
                            strokeColor |-> "blue"]>>]
      [] self.class.name = "CoarsePositioningSolver" ->
            [EmptyGraphics EXCEPT
               !.points = <<[color |-> "red", label |-> "Target"],
                            [distance |-> self.own.distance, color |-> "blue",
                             label |-> "Coarse"]>>,
               !.lines = <<[distance |-> self.own.distance,
                            strokeColor |-> "blue", strokeWidth |-> 2]>>,
               !.texts = <<[x |-> 0 - 15, y |-> 15,
                            text |-> "Phase 1: Coarse Positioning",
                            fontSize |-> 14, color |-> "blue"],
                           [x |-> 0 - 15, y |-> 12,
                            text |-> <<"Distance:", self.stats>>,
                            fontSize |-> 12, color |-> "black"]>>]
      [] self.class.name = "StepOneSolver" ->
            [EmptyGraphics EXCEPT
               !.points = <<[x |-> self.own.result, y |-> 0, label |-> "Step1"]>>]
      [] self.class.name = "StepTwoSolver" ->
            [EmptyGraphics EXCEPT
               !.points = <<[x |-> self.own.result, y |-> 1, label |-> "Step2"]>>]
      [] self.class.name = "DataProcessorSolver" ->
            [EmptyGraphics EXCEPT
               !.points = [i \in DOMAIN self.own.result.processedData |->
                             [x |-> i - 1, y |-> self.own.result.processedData[i],
                              label |-> <<"Processed:",
                                          self.own.result.processedData[i]>>]]]
      [] self.class.name = "ValidatorSolver" ->
            [EmptyGraphics EXCEPT
               !.texts = <<[x |-> 0, y |-> 0,
                            text |-> <<"Valid:", self.own.result.validCount, "/",
                                       Len(self.own.processedData.processedData)>>,
                            color |-> IF self.own.result.isValid
                                      THEN "green" ELSE "red"]>>]
      [] OTHER -> EmptyGraphics

\* lines 274-298: the visualizations of the instantiated stages, tagged
RECURSIVE StageVisualizations(_, _)
StageVisualizations(self, i) ==
    IF i > Len(self.pipelineDef) THEN << >>
    ELSE LET name == self.pipelineDef[i].solverName
             rest == StageVisualizations(self, i + 1)
         IN  IF name \in DOMAIN self.named
             THEN <<TagStep(PlainVisualize(self.named[name]), i - 1)>> \o rest
             ELSE rest

RECURSIVE FlatMap(_, _)
FlatMap(visualizations, k) ==
    IF visualizations = << >> THEN << >>
    ELSE Head(visualizations)[k] \o FlatMap(Tail(visualizations), k)

\* an aggregation that returns the empty payload unless several stages
\* have a visualization
visualizeEmptyUnlessSeveral(self) ==
    IF ~IsPipeline(self) THEN PlainVisualize(self)
    ELSE IF ~self.solved /\ HasActiveSubSolver(self)
    THEN PlainVisualize(ActiveSubSolver(self))
    ELSE LET visualizations == StageVisualizations(self, 1)
         IN  IF Len(visualizations) <= 1 THEN EmptyGraphics
             ELSE [k \in DOMAIN EmptyGraphics |-> FlatMap(visualizations, k)]

visualize(self) ==
    IF ~IsPipeline(self) THEN PlainVisualize(self)
    ELSE IF ~self.solved /\ HasActiveSubSolver(self)
    THEN PlainVisualize(ActiveSubSolver(self))
    ELSE LET visualizations == StageVisualizations(self, 1)
         IN  IF Len(visualizations) = 0 THEN EmptyGraphics
             ELSE IF Len(visualizations) = 1 THEN visualizations[1]
             ELSE [k \in DOMAIN EmptyGraphics |-> FlatMap(visualizations, k)]

\* a visualize() that hands out the solver's own result object as one of
\* its elements
SharedElementsResult(self) ==
    IF self.class.name \in {"DataProcessorSolver", "ValidatorSolver"}
    THEN {"result"}
    ELSE {}

\* the fields of a solver whose objects its visualize() hands out as
\* graphics elements: every visualize() of the classes builds its elements
\* as new objects that hold numbers and strings
SharedElements(self) == {}

\* the child of stage stageIndex after the pipeline has set element.step on
\* the elements of its visualize()
AfterTagging(child, stageIndex) ==
    [child EXCEPT !.own =
        [f \in DOMAIN child.own |->
            IF f \in SharedElements(child)
            THEN Put(child.own[f], "step", stageIndex)
            ELSE child.own[f]]]

\* the solver after its visualize() has run: the visualize() of a plain
\* class assigns nothing; the pipeline calls the active child's, or calls
\* the visualize() of every stage's child and tags the elements it returns
AfterVisualize(self) ==
    IF ~IsPipeline(self) THEN self
    ELSE IF ~self.solved /\ HasActiveSubSolver(self)
    THEN self
    ELSE [self EXCEPT !.named =
            [name \in DOMAIN self.named |->
                AfterTagging(self.named[name], findIndex(self, name))]]

\* the solver after its preview() has run: BaseSolver.preview builds a new
\* object, the pipeline calls the active child's
AfterPreview(self) == self

\* BaseSolver.preview, which no class of the model but the pipeline overrides
BaseSolver_preview(self) == EmptyGraphics

\* the pipeline forwards preview() to the active child
preview(self) ==
    IF IsPipeline(self) /\ HasActiveSubSolver(self)
    THEN BaseSolver_preview(ActiveSubSolver(self))
    ELSE BaseSolver_preview(self)

(***************************************************************************)
(* The solvers a caller constructs                                         *)
(***************************************************************************)
PlainClasses ==
    {TestSolverClass(target, m, a) :
        target \in 1..MaxTarget, m \in 1..MaxIterations, a \in BOOLEAN}
    \cup {InfiniteSolverClass(m, a) : m \in 1..MaxIterations, a \in BOOLEAN}
    \cup {ErrorSolverClass(m, a) : m \in 1..MaxIterations, a \in BOOLEAN}
    \cup {CoarsePositioningSolverClass(d, m, FALSE) :
            d \in 0..MaxTarget, m \in 1..MaxIterations}

StageNames == <<"stepOneSolver", "stepTwoSolver", "stepThreeSolver", "stepFourSolver">>

\* the stage definitions tried at every position
CommonStageDefs(i) ==
    {definePipelineStep(StageNames[i],
                        StageSolverClass("StepOneSolver", MaxIterations, FALSE),
                        "inputProblem", TRUE),
     definePipelineStep(StageNames[i],
                        StageSolverClass("StepOneSolver", 1, FALSE),
                        "inputProblem", FALSE),
     definePipelineStep(StageNames[i],
                        StageSolverClass("DataProcessorSolver", MaxIterations, FALSE),
                        "inputProblem", TRUE),
     definePipelineStep(StageNames[i],
                        StageSolverClass("FailingSolver", MaxIterations, FALSE),
                        "undefined", FALSE),
     definePipelineStep(StageNames[i],
                        StageSolverClass("StepTwoSolver", MaxIterations, FALSE),
                        "previousResult", FALSE),
     definePipelineStep(StageNames[i],
                        StageSolverClass("ValidatorSolver", MaxIterations, FALSE),
                        "previousOutput", TRUE)}

\* the stage definitions a pipelineDef may hold at position i: a TestSolver,
\* the one class with a computeProgress of its own, is tried as first stage,
\* with a budget that lets it solve and with one that runs out on the way,
\* and past the second position only the throwing child
StageDefs(i) ==
    IF i = 1
    THEN CommonStageDefs(i)
           \cup {definePipelineStep(StageNames[i],
                                    TestSolverClass(2, MaxIterations, FALSE),
                                    "undefined", FALSE),
                 definePipelineStep(StageNames[i],
                                    TestSolverClass(MaxIterations, MaxIterations - 1, FALSE),
                                    "undefined", FALSE)}
    ELSE IF i = 2
    THEN CommonStageDefs(i)
    ELSE {d \in CommonStageDefs(i) : d.solverClass.name = "FailingSolver"}

\* a stage that reads the previous child's result follows a child that has
\* one, and a stage that reads the previous stage's output follows a stage
\* whose child declares one
WellFormed(def) ==
    \A i \in DOMAIN def :
        /\ def[i].getConstructorParams = "previousResult" =>
              /\ i > 1
              /\ def[i - 1].solverClass.name \in {"StepOneSolver", "StepTwoSolver"}
        /\ def[i].getConstructorParams = "previousOutput" =>
              /\ i > 1
              /\ def[i - 1].solverClass.name = "DataProcessorSolver"

RECURSIVE PipelineDefsOfLen(_)
PipelineDefsOfLen(n) ==
    IF n = 0 THEN {<< >>}
    ELSE {Append(def, sd) : def \in PipelineDefsOfLen(n - 1), sd \in StageDefs(n)}

PipelineDefs ==
    {def \in UNION {PipelineDefsOfLen(n) : n \in 0..MaxStages} : WellFormed(def)}

PipelineClasses ==
    {PipelineClass("TestPipelineSolver", m, a, def) :
        m \in 1..MaxPipelineIterations, a \in BOOLEAN, def \in PipelineDefs}

InputProblems ==
    {[targetValue |-> tv, initialValue |-> 0, inputData |-> <<1, 2>>,
      validationRules |-> [minValue |-> 0, maxValue |-> tv]] :
        tv \in {MaxTarget}}

NewSolvers ==
    {New(cls, Undefined) : cls \in PlainClasses}
    \cup {BasePipelineSolver(cls, input) :
            cls \in PipelineClasses, input \in InputProblems}

(***************************************************************************)
(* The state machine: the caller's calls on the solver                     *)
(***************************************************************************)
\* the record of the last call: the method called, the exception it
\* propagated, the number of step() calls it made, whether it is a solve()
\* that never returns, and what the solver was when the call was made
Called(op, before, exc, steps, looping) ==
    [op |-> op, exc |-> exc, steps |-> steps, looping |-> looping,
     wasDone |-> AlreadyDone(before), iterationsBefore |-> before.iterations]

\* the largest element of a finite non-empty set of numbers
Max(S) == CHOOSE x \in S : \A y \in S : y <= x

\* what performance.now() may return: the clock never runs backwards, so no
\* reading is earlier than a reading the solver has recorded
ClockReadings(self) ==
    IF IsPipeline(self)
    THEN LET recorded == {self.startTimeOfStage[k] : k \in DOMAIN self.startTimeOfStage}
                         \cup {self.endTimeOfStage[k] : k \in DOMAIN self.endTimeOfStage}
         IN  Max(recorded \cup {0})..MaxTime
    ELSE {0}

\* the call of op on solver has ended with result r
Returned(op, r) ==
    /\ solver' = r.obj
    /\ call' = Called(op, solver, r.exc, r.steps, r.looping)

Init ==
    /\ solver \in NewSolvers
    /\ call = Called("new", solver, NoException, 0, FALSE)

CallSetup ==
    /\ Returned("setup", [steps |-> 0, looping |-> FALSE] @@ setup(solver))
    /\ TRUE

CallStep ==
    \E t \in ClockReadings(solver) :
        Returned("step", [steps |-> 1, looping |-> FALSE] @@ step(solver, t))

\* the loop of solve() has ended with result r, and Date.now() has advanced
\* by elapsed between the start and the end of solve()
SolveReturned(r) ==
    \E elapsed \in 0..MaxTime : Returned("solve", AfterLoop(r, 0, elapsed))

\* solve(), lines 82-90: the loop, then the time it took
CallSolve ==
    \E t \in ClockReadings(solver) : SolveReturned(solveLoop(solver, t, 0))

\* getOutput() returns a value computed from the solver and assigns to no
\* field of it
Read(op, value) ==
    /\ value = value
    /\ solver' = solver
    /\ call' = Called(op, solver, NoException, 0, FALSE)

\* the stage names solveUntilStage is called with
UntilStageNames == {"STEPTWOSOLVER"}

\* solveUntilStage(stageName) on solver has ended with result r; the call
\* record also holds the argument and the stage the pipeline was at
ReturnedUntilStage(stageName, r) ==
    /\ solver' = r.obj
    /\ call' = Called("solveUntilStage", solver, r.exc, r.steps, FALSE)
                  @@ [stageName |-> stageName,
                      stageNameBefore |-> getCurrentStageName(solver)]

CallSolveUntilStage ==
    /\ IsPipeline(solver)
    /\ \E stageName \in UntilStageNames, t \in ClockReadings(solver) :
          ReturnedUntilStage(stageName, solveUntilStage(solver, stageName, t))

CallVisualize ==
    /\ visualize(solver) = visualize(solver)
    /\ solver' = AfterVisualize(solver)
    /\ call' = Called("visualize", solver, NoException, 0, FALSE)

CallPreview ==
    /\ preview(solver) = preview(solver)
    /\ solver' = AfterPreview(solver)
    /\ call' = Called("preview", solver, NoException, 0, FALSE)

CallGetOutput ==
    /\ Read("getOutput", getOutput(solver))
    /\ TRUE

Next ==
    \/ CallSetup
    \/ CallStep
    \/ CallSolve
    \/ CallSolveUntilStage
    \/ CallVisualize
    \/ CallPreview
    \/ CallGetOutput

Spec == Init /\ [][Next]_vars

\* the object step() hands to _step: set up, with the iteration counted
BeforeStepHook(self) == [setup(self).obj EXCEPT !.iterations = @ + 1]

\* how the _step of the next step() on self ends, when the clock reads MaxTime
StepHookResult(self) == _step(BeforeStepHook(self), MaxTime)

\* what the _step of the next step() on self throws, if anything
StepHookException(self) == StepHookResult(self).exc

\* whether the message msg contains the text part
Contains(msg, part) == \E i \in DOMAIN msg : msg[i] = part

RanOutOfIterations(self) == Contains(self.error, "ran out of iterations")

(***************************************************************************)
(* Properties                                                              *)
(***************************************************************************)
\* C1: a step() made on a solver that is already solved or failed is a
\* no-op: no field of the solver changes (iterations, solved, failed, error,
\* progress, stats, the stage index, activeSubSolver, pipelineOutputs, the
\* per-stage maps, the children), _step does not run and nothing is thrown
C1_StepWhenDoneIsNoOp ==
    [][(call'.op = "step" /\ (solver.solved \/ solver.failed)) =>
          /\ solver' = solver
          /\ solver'.stepRuns = solver.stepRuns
          /\ call'.exc = NoException]_vars

\* a step() has been made on a pipeline that had failed in its second stage
C1_Witness ==
    /\ call.op = "step"
    /\ call.wasDone
    /\ IsPipeline(solver)
    /\ solver.failed
    /\ solver.currentPipelineStageIndex = 1

\* C2: solved and failed are never both true, and once solved (failed) is
\* true it stays true whatever is called next
C2_ExclusiveAndStable ==
    [][/\ ~(solver'.solved /\ solver'.failed)
       /\ (solver.solved => solver'.solved)
       /\ (solver.failed => solver'.failed)]_vars

\* C3: when _step throws during step() or solve(), the call propagates that
\* same exception, the solver is failed, and error is
\* "<ClassName> error: <thrown value>" with the solver's own class name;
\* a solver never carries such an error after a call that returned normally
C3_ThrowIsRecordedAndPropagated ==
    [][(call'.op \in {"step", "solve"} /\ ~(solver.solved \/ solver.failed)) =>
          /\ call'.op = "step" => call'.exc = StepHookException(solver)
          /\ (call'.op = "solve" /\ StepHookException(solver) # NoException) =>
                call'.exc = StepHookException(solver)
          /\ call'.exc # NoException =>
                /\ solver'.failed
                /\ solver'.error =
                     <<solver'.class.name, "error:">> \o String(call'.exc)
          /\ (Len(solver'.error) = 5 /\ solver'.error[2] = "error:") =>
                /\ call'.exc # NoException
                /\ solver'.error[1] = solver'.class.name]_vars

\* a solve() of a pipeline has propagated the exception of its second stage
C3_Witness ==
    /\ call.op = "solve"
    /\ call.steps > 2
    /\ call.exc = Error("Intentional test error")
    /\ IsPipeline(solver)
    /\ solver.currentPipelineStageIndex = 1
    /\ solver.error = <<"TestPipelineSolver", "error:", "Error", ":",
                        "Intentional test error">>

\* C4 as stated: a solver whose _step never sets solved ends solve() failed
\* and not solved, with iterations = MAX_ITERATIONS and an error containing
\* "ran out of iterations", and solve() throws nothing
C4_NeverSolvingEndsFailed ==
    (call.op = "solve" /\ solver.class.name = "InfiniteSolver") =>
        /\ solver.failed
        /\ ~solver.solved
        /\ solver.iterations = solver.MAX_ITERATIONS
        /\ RanOutOfIterations(solver)
        /\ call.exc = NoException

\* C4 amended: the same, for a solver whose tryFinalAcceptance does not set
\* solved either
C4_NeverSolvingNeverAcceptingEndsFailed ==
    (/\ call.op = "solve"
     /\ solver.class.name = "InfiniteSolver"
     /\ ~solver.class.acceptOnFinal) =>
        /\ solver.failed
        /\ ~solver.solved
        /\ solver.iterations = solver.MAX_ITERATIONS
        /\ solver.error = <<"InfiniteSolver", "ran out of iterations">>
        /\ RanOutOfIterations(solver)
        /\ call.exc = NoException

\* a solve() that made three step() calls on a never-solving solver
C4_Witness ==
    /\ call.op = "solve"
    /\ call.steps = 3
    /\ solver.class.name = "InfiniteSolver"
    /\ ~solver.class.acceptOnFinal
    /\ solver.failed

\* whether the next step() on self ends its _step normally with solved false
\* and the budget used up
StepHookEndsOutOfIterations(self) ==
    /\ StepHookResult(self).exc = NoException
    /\ OutOfIterations(StepHookResult(self).obj)

\* C5: tryFinalAcceptance runs exactly on a step() whose _step ends with
\* solved false and iterations >= MAX_ITERATIONS, and at most once in a
\* solver's lifetime; if the hook sets solved the solver ends solved, not
\* failed and without a "ran out of iterations" error, otherwise it ends
\* failed; a solver whose _step sets solved on the MAX_ITERATIONS-th step
\* is solved, not failed, and the hook has not run
C5_FinalAcceptance ==
    [][(call'.op = "step" /\ ~(solver.solved \/ solver.failed)) =>
          /\ solver'.acceptRuns =
                solver.acceptRuns
                  + (IF StepHookEndsOutOfIterations(solver) THEN 1 ELSE 0)
          /\ solver'.acceptRuns <= 1
          /\ (StepHookEndsOutOfIterations(solver) /\ solver.class.acceptOnFinal) =>
                /\ solver'.solved
                /\ ~solver'.failed
                /\ ~RanOutOfIterations(solver')
          /\ (StepHookEndsOutOfIterations(solver) /\ ~solver.class.acceptOnFinal) =>
                /\ solver'.failed
                /\ ~solver'.solved
          /\ (/\ StepHookResult(solver).exc = NoException
              /\ StepHookResult(solver).obj.solved
              /\ solver'.iterations = solver.MAX_ITERATIONS) =>
                /\ solver'.solved
                /\ ~solver'.failed
                /\ solver'.acceptRuns = 0]_vars

\* C6 as stated: a solver that counts up to a target N > 0 ends solve() with
\* iterations = N, solved and not failed
C6_CounterSolves ==
    (call.op = "solve" /\ solver.class.name = "TestSolver") =>
        /\ solver.iterations = solver.own.target
        /\ solver.solved
        /\ ~solver.failed

\* C6 amended: the same, for a target N with 0 < N <= MAX_ITERATIONS
C6_CounterWithinBudgetSolves ==
    (/\ call.op = "solve"
     /\ solver.class.name = "TestSolver"
     /\ solver.own.target <= solver.MAX_ITERATIONS) =>
        /\ solver.iterations = solver.own.target
        /\ solver.own.current = solver.own.target
        /\ solver.solved
        /\ ~solver.failed
        /\ call.exc = NoException

\* a solve() has counted to 3 with a budget of 3, after one step() by hand
C6_Witness ==
    /\ call.op = "solve"
    /\ call.steps = 2
    /\ solver.class.name = "TestSolver"
    /\ solver.own.target = 3
    /\ solver.MAX_ITERATIONS = 3
    /\ solver.solved

\* the solver and the children it has constructed
Solvers(self) ==
    {self} \cup (IF IsPipeline(self)
                 THEN {self.named[k] : k \in DOMAIN self.named}
                 ELSE {})

C10_StageIndexMovesByOne ==
    [][IsPipeline(solver) =>
          /\ call.op = "new" => solver.currentPipelineStageIndex = 0
          /\ solver'.currentPipelineStageIndex >= solver.currentPipelineStageIndex
          /\ solver'.currentPipelineStageIndex <= Len(solver'.pipelineDef)
          /\ call'.op = "step" =>
                solver'.currentPipelineStageIndex
                  \in {solver.currentPipelineStageIndex,
                        solver.currentPipelineStageIndex + 1}
          /\ \A i \in 1..solver'.currentPipelineStageIndex :
                /\ solver'.pipelineDef[i].solverName \in DOMAIN solver'.named
                /\ solver'.named[solver'.pipelineDef[i].solverName].solved]_vars

\* a step() has moved a pipeline from its first stage to its second
C10_Witness ==
    /\ call.op = "step"
    /\ IsPipeline(solver)
    /\ Len(solver.pipelineDef) = 2
    /\ solver.currentPipelineStageIndex = 1
    /\ solver.activeSubSolver = Null
    /\ ~solver.solved
    /\ ~solver.failed

\* every stage of the pipeline has a child and that child is solved
AllStagesSolved(self) ==
    \A i \in DOMAIN self.pipelineDef :
        /\ getSolver(self, self.pipelineDef[i].solverName) # None
        /\ The(getSolver(self, self.pipelineDef[i].solverName)).solved

\* all stages are done: the index equals the number of stage definitions,
\* no child is active and every stage's child is solved
PipelineComplete(self) ==
    /\ self.currentPipelineStageIndex = Len(self.pipelineDef)
    /\ ~HasActiveSubSolver(self)
    /\ AllStagesSolved(self)

\* C11 as stated: a pipeline starts with index 0 and no active child; it is
\* solved only where the index equals the number of stage definitions, no
\* child is active and every stage's child is solved; after a solve() in
\* which every child solves it is solved, not failed, and
\* getCurrentStageName() is "none"
C11_SolvedIffComplete ==
    IsPipeline(solver) =>
        /\ call.op = "new" =>
              (solver.currentPipelineStageIndex = 0 /\ ~HasActiveSubSolver(solver))
        /\ solver.solved => PipelineComplete(solver)
        /\ (call.op = "solve" /\ AllStagesSolved(solver)) =>
              /\ solver.solved
              /\ ~solver.failed
              /\ getCurrentStageName(solver) = "none"

\* C11 amended: a pipeline starts with index 0 and no active child; it is
\* solved only where all stages are done or where its tryFinalAcceptance
\* has set solved; after a solve() in which every child solves,
\* getCurrentStageName() is "none" and the pipeline is solved and not
\* failed, unless the step in which the last child solved was the
\* MAX_ITERATIONS-th and tryFinalAcceptance did not accept: then it is
\* failed, not solved, with "<Pipeline> ran out of iterations"
C11_SolvedIffCompleteOrAccepted ==
    IsPipeline(solver) =>
        /\ call.op = "new" =>
              (solver.currentPipelineStageIndex = 0 /\ ~HasActiveSubSolver(solver))
        /\ solver.solved =>
              \/ PipelineComplete(solver)
              \/ solver.class.acceptOnFinal /\ solver.acceptRuns = 1
        /\ (call.op = "solve" /\ AllStagesSolved(solver)) =>
              /\ PipelineComplete(solver)
              /\ getCurrentStageName(solver) = "none"
              /\ solver.solved # solver.failed
              /\ solver.failed =>
                    /\ solver.iterations = solver.MAX_ITERATIONS
                    /\ solver.acceptRuns = 1
                    /\ ~solver.class.acceptOnFinal
                    /\ solver.error =
                         <<solver.class.name, "ran out of iterations">>
              /\ solver.solved =>
                    \/ solver.iterations <= solver.MAX_ITERATIONS
                         /\ solver.acceptRuns = 0
                    \/ solver.class.acceptOnFinal

\* a solve() has taken a pipeline of two stages to solved
C11_Witness ==
    /\ call.op = "solve"
    /\ IsPipeline(solver)
    /\ Len(solver.pipelineDef) = 2
    /\ PipelineComplete(solver)
    /\ solver.solved
    /\ ~solver.failed
    /\ getCurrentStageName(solver) = "none"

\* the iterations of the child stored under name, 0 while there is none
ChildIterations(self, name) ==
    IF getSolver(self, name) = None THEN 0 ELSE The(getSolver(self, name)).iterations

\* C12: a step() of a pipeline that is neither solved nor failed counts
\* exactly one pipeline iteration and makes at most one step() of the active
\* child, and none of any other child; so while a stage is active its
\* child's iterations equal the pipeline's iterations minus
\* firstIterationOfStage of that stage
C12_OneChildStepPerPipelineStep ==
    [][/\ (IsPipeline(solver) /\ call'.op = "step"
             /\ ~(solver.solved \/ solver.failed)) =>
             /\ solver'.iterations = solver.iterations + 1
             /\ \A name \in DOMAIN solver'.named :
                   /\ ChildIterations(solver', name) - ChildIterations(solver, name)
                         \in {0, 1}
                   /\ ChildIterations(solver', name) # ChildIterations(solver, name) =>
                         solver.activeSubSolver = name
       /\ (IsPipeline(solver') /\ HasActiveSubSolver(solver')) =>
             ActiveSubSolver(solver').iterations =
               solver'.iterations
                 - solver'.firstIterationOfStage[solver'.activeSubSolver]]_vars

\* the child of the second stage has made one step, on the pipeline's fourth
C12_Witness ==
    /\ call.op = "step"
    /\ IsPipeline(solver)
    /\ solver.currentPipelineStageIndex = 1
    /\ HasActiveSubSolver(solver)
    /\ ActiveSubSolver(solver).iterations = 1
    /\ solver.iterations = 4
    /\ solver.firstIterationOfStage[solver.activeSubSolver] = 3

\* whether the child of stage i (counted from 1) has been constructed
StageStarted(self, i) == getSolver(self, self.pipelineDef[i].solverName) # None

\* the child of stage i
StageChild(self, i) == The(getSolver(self, self.pipelineDef[i].solverName))

\* C13: the child of a stage is constructed only on a step() after the one
\* in which the previous stage's child solved, and its constructor
\* parameters are what getConstructorParams finds on the pipeline then: the
\* inputProblem, the previous child's result, the stored output of the
\* previous stage exactly as that child declares it
C13_LazyConstruction ==
    IsPipeline(solver) =>
        \A i \in DOMAIN solver.pipelineDef :
            StageStarted(solver, i) =>
                /\ solver.currentPipelineStageIndex >= i - 1
                /\ i > 1 =>
                      /\ StageStarted(solver, i - 1)
                      /\ StageChild(solver, i - 1).solved
                      /\ solver.firstIterationOfStage[solver.pipelineDef[i].solverName]
                            = solver.firstIterationOfStage[
                                  solver.pipelineDef[i - 1].solverName]
                              + StageChild(solver, i - 1).iterations + 1
                /\ solver.pipelineDef[i].getConstructorParams = "inputProblem" =>
                      StageChild(solver, i).own.input = solver.inputProblem
                /\ solver.pipelineDef[i].getConstructorParams = "previousResult" =>
                      /\ StageChild(solver, i).own.target
                            = solver.inputProblem.targetValue
                      /\ StageChild(solver, i).own.result
                            = StageChild(solver, i - 1).own.result
                              + 2 * StageChild(solver, i).iterations
                /\ solver.pipelineDef[i].getConstructorParams = "previousOutput" =>
                      /\ StageChild(solver, i).own.rules
                            = solver.inputProblem.validationRules
                      /\ Some(StageChild(solver, i).own.processedData)
                            = getOutput(StageChild(solver, i - 1))
                      /\ Some(StageChild(solver, i).own.processedData)
                            = getStageOutput(solver,
                                solver.pipelineDef[i - 1].solverName)

\* the child of the second stage has been constructed from the output the
\* first stage's child declared
C13_Witness ==
    /\ IsPipeline(solver)
    /\ Len(solver.pipelineDef) = 2
    /\ StageStarted(solver, 2)
    /\ solver.pipelineDef[2].getConstructorParams = "previousOutput"
    /\ StageChild(solver, 2).own.processedData.processedData = <<2, 4>>
    /\ StageChild(solver, 2).iterations = 0

\* C14: pipelineOutputs has an entry for a stage name, i.e.
\* hasStageOutput(name) is true, exactly if the stage has completed (its
\* index is below currentPipelineStageIndex and its child is solved) and
\* its child's getOutput() is not null; the entry is that output
C14_OutputIffCompletedWithOutput ==
    IsPipeline(solver) =>
        /\ \A i \in DOMAIN solver.pipelineDef :
              /\ hasStageOutput(solver, solver.pipelineDef[i].solverName) <=>
                    /\ i - 1 < solver.currentPipelineStageIndex
                    /\ StageStarted(solver, i)
                    /\ StageChild(solver, i).solved
                    /\ getOutput(StageChild(solver, i)) # None
              /\ hasStageOutput(solver, solver.pipelineDef[i].solverName) =>
                    getStageOutput(solver, solver.pipelineDef[i].solverName)
                      = getOutput(StageChild(solver, i))
        /\ DOMAIN getAllOutputs(solver) \subseteq
              {solver.pipelineDef[i].solverName : i \in DOMAIN solver.pipelineDef}

\* two stages have completed; the first child has no output, the second has
C14_Witness ==
    /\ IsPipeline(solver)
    /\ solver.currentPipelineStageIndex = 2
    /\ StageChild(solver, 1).class.name = "StepOneSolver"
    /\ ~hasStageOutput(solver, solver.pipelineDef[1].solverName)
    /\ hasStageOutput(solver, solver.pipelineDef[2].solverName)

\* the name of the first stage
FirstStageName(self) == self.pipelineDef[1].solverName

\* C15 as stated: on a freshly constructed pipeline
\* hasStageOutput(firstStageName) is false and getAllOutputs() is empty;
\* once the first stage's child is solved it is true and
\* getStageOutput(firstStageName) is what that child's getOutput() returns
C15_FirstStageOutput ==
    (IsPipeline(solver) /\ solver.pipelineDef # << >>) =>
        /\ call.op = "new" =>
              /\ ~hasStageOutput(solver, FirstStageName(solver))
              /\ getAllOutputs(solver) = EmptyMap
        /\ (StageStarted(solver, 1) /\ StageChild(solver, 1).solved) =>
              /\ hasStageOutput(solver, FirstStageName(solver))
              /\ getStageOutput(solver, FirstStageName(solver))
                    = getOutput(StageChild(solver, 1))

\* C15 amended: the same for a first child whose getOutput() is not null;
\* for a first child whose getOutput() is null (the default)
\* hasStageOutput(firstStageName) stays false and getStageOutput undefined
C15_FirstStageOutputIfDeclared ==
    (IsPipeline(solver) /\ solver.pipelineDef # << >>) =>
        /\ call.op = "new" =>
              /\ ~hasStageOutput(solver, FirstStageName(solver))
              /\ getAllOutputs(solver) = EmptyMap
        /\ ~(StageStarted(solver, 1) /\ StageChild(solver, 1).solved) =>
              ~hasStageOutput(solver, FirstStageName(solver))
        /\ (StageStarted(solver, 1) /\ StageChild(solver, 1).solved) =>
              IF getOutput(StageChild(solver, 1)) # None
              THEN /\ hasStageOutput(solver, FirstStageName(solver))
                   /\ getStageOutput(solver, FirstStageName(solver))
                         = getOutput(StageChild(solver, 1))
              ELSE /\ ~hasStageOutput(solver, FirstStageName(solver))
                   /\ getStageOutput(solver, FirstStageName(solver)) = None

\* the step() in which the first child solved has stored its doubled data
C15_Witness ==
    /\ call.op = "step"
    /\ IsPipeline(solver)
    /\ solver.iterations = 2
    /\ solver.currentPipelineStageIndex = 1
    /\ hasStageOutput(solver, FirstStageName(solver))
    /\ The(getStageOutput(solver, FirstStageName(solver))).processedData = <<2, 4>>
    /\ The(getStageOutput(solver, FirstStageName(solver))).metadata
          = [count |-> 2, sum |-> 6]

\* the names of all stage definitions of a pipeline
AllStageNames(self) ==
    {self.pipelineDef[i].solverName : i \in DOMAIN self.pipelineDef}

\* the names of the stages whose child returns a non-null getOutput()
StageNamesWithOutput(self) ==
    {self.pipelineDef[i].solverName :
        i \in {j \in DOMAIN self.pipelineDef :
                  StageStarted(self, j) /\ getOutput(StageChild(self, j)) # None}}

\* C16 as stated: after a solve() that ran every stage to completion,
\* getAllOutputs() has exactly one entry per stage definition, keyed by the
\* stage's name
C16_OneOutputPerStage ==
    (call.op = "solve" /\ IsPipeline(solver) /\ PipelineComplete(solver)) =>
        DOMAIN getAllOutputs(solver) = AllStageNames(solver)

\* C16 amended: after a solve() that ran every stage to completion,
\* getAllOutputs() has exactly one entry for each stage whose child's
\* getOutput() is not null, keyed by the stage's name and holding that
\* output, and no other entry
C16_OneOutputPerStageWithOutput ==
    (call.op = "solve" /\ IsPipeline(solver) /\ PipelineComplete(solver)) =>
        /\ DOMAIN getAllOutputs(solver) = StageNamesWithOutput(solver)
        /\ \A i \in DOMAIN solver.pipelineDef :
              getOutput(StageChild(solver, i)) # None =>
                  getAllOutputs(solver)[solver.pipelineDef[i].solverName]
                      = The(getOutput(StageChild(solver, i)))

\* solve() has run a data processor and a validator to completion and both
\* outputs are on file
C16_Witness ==
    /\ call.op = "solve"
    /\ call.iterationsBefore = 0
    /\ IsPipeline(solver)
    /\ PipelineComplete(solver)
    /\ Len(solver.pipelineDef) = 2
    /\ DOMAIN getAllOutputs(solver) = {StageNames[1], StageNames[2]}
    /\ getAllOutputs(solver)[StageNames[2]].isValid = FALSE

\* C17 as stated: once a stage's child has failed, by a throwing _step or by
\* running out of iterations, the pipeline is failed, its error is the
\* child's own error, and no later stage is ever instantiated
C17_ChildFailureFailsPipeline ==
    IsPipeline(solver) =>
        \A i \in DOMAIN solver.pipelineDef :
            (StageStarted(solver, i) /\ StageChild(solver, i).failed) =>
                /\ solver.failed
                /\ solver.error = StageChild(solver, i).error
                /\ \A j \in DOMAIN solver.pipelineDef :
                      j > i => getSolver(solver, solver.pipelineDef[j].solverName) = None

\* C17 amended: once a stage's child has failed the pipeline is failed and
\* no later stage is ever instantiated; if the child ran out of iterations
\* the pipeline's error is the child's error, except that a pipeline whose
\* own budget ran out on that step without being accepted reports its own
\* "ran out of iterations"; if the child's _step threw, the pipeline's error
\* is "<pipeline class> error: <exception>", where the child's is
\* "<child class> error: <exception>"
C17_ChildFailureFailsPipelineWithItsError ==
    IsPipeline(solver) =>
        \A i \in DOMAIN solver.pipelineDef :
            (StageStarted(solver, i) /\ StageChild(solver, i).failed) =>
                /\ solver.failed
                /\ \A j \in DOMAIN solver.pipelineDef :
                      j > i => getSolver(solver, solver.pipelineDef[j].solverName) = None
                /\ IF RanOutOfIterations(StageChild(solver, i))
                   THEN IF solver.iterations >= solver.MAX_ITERATIONS /\ ~solver.solved
                        THEN solver.error = <<solver.class.name, "ran out of iterations">>
                        ELSE solver.error = StageChild(solver, i).error
                   ELSE /\ StageChild(solver, i).error
                             = <<StageChild(solver, i).class.name, "error:">>
                                  \o String(Error("Intentional test error"))
                        /\ solver.error
                             = <<solver.class.name, "error:">>
                                  \o String(Error("Intentional test error"))

\* a further step() on a two-stage pipeline whose first child ran out of
\* iterations: the pipeline carries the child's error and the second stage
\* has no child
C17_Witness ==
    /\ call.op = "step"
    /\ call.wasDone
    /\ IsPipeline(solver)
    /\ Len(solver.pipelineDef) = 2
    /\ StageStarted(solver, 1)
    /\ StageChild(solver, 1).failed
    /\ solver.failed
    /\ solver.error = <<"StepOneSolver", "ran out of iterations">>
    /\ getSolver(solver, StageNames[2]) = None

\* whether the child of stage i has failed by an exception of its _step
ChildThrew(self, i) ==
    /\ StageStarted(self, i)
    /\ StageChild(self, i).failed
    /\ ~RanOutOfIterations(StageChild(self, i))

\* C18: a solve() (or step()) of a pipeline during which the child of a
\* stage throws from its _step ends with that exception, and the pipeline
\* is failed with an error that begins with the pipeline's own class name
\* followed by " error"
C18_ChildExceptionPropagates ==
    (IsPipeline(solver) /\ call.op \in {"step", "solve"} /\ ~call.wasDone) =>
        \A i \in DOMAIN solver.pipelineDef :
            ChildThrew(solver, i) =>
                /\ call.exc = Error("Intentional test error")
                /\ solver.failed
                /\ Len(solver.error) >= 2
                /\ solver.error[1] = solver.class.name
                /\ solver.error[2] = "error:"
                /\ solver.class.name # StageChild(solver, i).class.name

\* solve() on a fresh two-stage pipeline ends with the exception of the
\* second stage's child
C18_Witness ==
    /\ call.op = "solve"
    /\ call.iterationsBefore = 0
    /\ call.exc = Error("Intentional test error")
    /\ IsPipeline(solver)
    /\ solver.currentPipelineStageIndex = 1
    /\ ChildThrew(solver, 2)
    /\ solver.error[1] = "TestPipelineSolver"

\* C19: once the active child of a pipeline has failed, by an exception or
\* by running out of iterations, the pipeline has no active child, the
\* stage index still points at the failed stage, and no later stage has
\* been started
C19_FailedChildIsReleased ==
    IsPipeline(solver) =>
        \A i \in DOMAIN solver.pipelineDef :
            (StageStarted(solver, i) /\ StageChild(solver, i).failed) =>
                /\ ~HasActiveSubSolver(solver)
                /\ solver.currentPipelineStageIndex = i - 1
                /\ \A j \in DOMAIN solver.pipelineDef :
                      j > i => ~StageStarted(solver, j)

\* C20: a pipeline has at most one active child: whenever activeSubSolver is
\* set it is the child constructed for the stage at
\* currentPipelineStageIndex, and from the step() in which a stage's child
\* solves until the step() that constructs the next stage's child there is
\* no active child
C20_OneActiveChild ==
    IsPipeline(solver) =>
        /\ HasActiveSubSolver(solver) =>
              /\ solver.currentPipelineStageIndex < Len(solver.pipelineDef)
              /\ solver.activeSubSolver
                    = solver.pipelineDef[solver.currentPipelineStageIndex + 1].solverName
              /\ StageStarted(solver, solver.currentPipelineStageIndex + 1)
        /\ \A i \in DOMAIN solver.pipelineDef :
              (i - 1 = solver.currentPipelineStageIndex /\ ~StageStarted(solver, i)) =>
                  ~HasActiveSubSolver(solver)
        /\ \A i \in DOMAIN solver.pipelineDef :
              (StageStarted(solver, i) /\ i - 1 # solver.currentPipelineStageIndex) =>
                  /\ i - 1 < solver.currentPipelineStageIndex
                  /\ StageChild(solver, i).solved

\* the step() in which the first child solved has left a two-stage pipeline
\* at index 1 with no active child and the second child not yet constructed
C20_Witness ==
    /\ call.op = "step"
    /\ ~call.wasDone
    /\ IsPipeline(solver)
    /\ Len(solver.pipelineDef) = 2
    /\ solver.currentPipelineStageIndex = 1
    /\ StageChild(solver, 1).solved
    /\ ~StageStarted(solver, 2)
    /\ ~HasActiveSubSolver(solver)
    /\ solver.activeSubSolver = Null

\* C21: the stage index classifies the stages of a pipeline: every stage
\* below the index has an instantiated, solved child; an active child is the
\* child of the stage at the index and of no other; every stage above the
\* index has no child, getSolver(name) is undefined for it; getSolver(name)
\* is defined only for names of stages that have been instantiated
C21_IndexClassifiesStages ==
    IsPipeline(solver) =>
        /\ solver.currentPipelineStageIndex \in 0 .. Len(solver.pipelineDef)
        /\ \A i \in DOMAIN solver.pipelineDef :
              /\ i - 1 < solver.currentPipelineStageIndex =>
                    /\ getSolver(solver, solver.pipelineDef[i].solverName) # None
                    /\ StageChild(solver, i).solved
                    /\ solver.activeSubSolver # solver.pipelineDef[i].solverName
              /\ i - 1 = solver.currentPipelineStageIndex =>
                    /\ HasActiveSubSolver(solver) <=>
                          solver.activeSubSolver = solver.pipelineDef[i].solverName
                    /\ HasActiveSubSolver(solver) =>
                          getSolver(solver, solver.pipelineDef[i].solverName) # None
              /\ i - 1 > solver.currentPipelineStageIndex =>
                    /\ getSolver(solver, solver.pipelineDef[i].solverName) = None
                    /\ solver.activeSubSolver # solver.pipelineDef[i].solverName
        /\ \A i \in DOMAIN StageNames :
              getSolver(solver, StageNames[i]) # None =>
                  /\ i \in DOMAIN solver.pipelineDef
                  /\ StageNames[i] = solver.pipelineDef[i].solverName
                  /\ solver.firstIterationOfStage[StageNames[i]] \in 1 .. solver.iterations

\* a two-stage pipeline whose first stage is completed and whose second
\* stage is active
C21_Witness ==
    /\ IsPipeline(solver)
    /\ Len(solver.pipelineDef) = 2
    /\ solver.currentPipelineStageIndex = 1
    /\ StageChild(solver, 1).solved
    /\ solver.activeSubSolver = StageNames[2]
    /\ getSolver(solver, StageNames[2]) # None
    /\ ~solver.solved /\ ~solver.failed

\* whether a stage definition has a completion callback
HasCallback(def) == def.onSolved

\* the completed stages of a pipeline that have a callback, in stage order
CompletedStagesWithCallback(self) ==
    SelectSeq(SubSeq(self.pipelineDef, 1, self.currentPipelineStageIndex),
              HasCallback)

\* C22: the callbacks that have run are exactly those of the completed
\* stages that have one, each once and in stage order (so none has run for
\* a stage whose child failed); each ran on the step() in which its stage's
\* child became solved, and found the child solved, the stage's output
\* already stored, the child still the active child and the stage index
\* not yet advanced
C22_CallbackOncePerSolvedStage ==
    IsPipeline(solver) =>
        /\ Len(solver.consoleLog) = Len(CompletedStagesWithCallback(solver))
        /\ \A k \in DOMAIN solver.consoleLog :
              LET entry == solver.consoleLog[k]
                  def == CompletedStagesWithCallback(solver)[k]
                  child == The(getSolver(solver, def.solverName))
              IN  /\ entry.stage = def.solverName
                  /\ entry.solver = Some(child)
                  /\ child.solved /\ ~child.failed
                  /\ entry.output = getOutput(child)
                  /\ entry.output = getStageOutput(solver, def.solverName)
                  /\ entry.activeSubSolver = def.solverName
                  /\ solver.pipelineDef[entry.currentPipelineStageIndex + 1] = def
                  /\ entry.iterations
                        = solver.firstIterationOfStage[def.solverName] + child.iterations

\* both callbacks of a two-stage pipeline have run, the second one having
\* read its own stage's output while its child was still active
C22_Witness ==
    /\ IsPipeline(solver)
    /\ solver.currentPipelineStageIndex = 2
    /\ Len(solver.consoleLog) = 2
    /\ solver.consoleLog[1].stage = StageNames[1]
    /\ solver.consoleLog[2].stage = StageNames[2]
    /\ solver.consoleLog[2].output # None
    /\ solver.consoleLog[2].activeSubSolver = StageNames[2]
    /\ solver.consoleLog[2].currentPipelineStageIndex = 1

\* whether a stage other than the last is in progress
EarlierStageInProgress(self) ==
    /\ ~self.solved /\ ~self.failed
    /\ HasActiveSubSolver(self)
    /\ self.currentPipelineStageIndex < Len(self.pipelineDef) - 1

\* C23 as stated, for a pipeline with at least one stage: getStageProgress()
\* is 0 before the first step, strictly between 0 and 1 while a stage other
\* than the last is in progress, and 1 once the pipeline is solved by
\* completing its stages
C23_StageProgress ==
    (IsPipeline(solver) /\ solver.pipelineDef # << >>) =>
        /\ call.op = "new" => getStageProgress(solver) = Rat(0, 1)
        /\ EarlierStageInProgress(solver) =>
              /\ RatLess(Rat(0, 1), getStageProgress(solver))
              /\ RatLess(getStageProgress(solver), Rat(1, 1))
        /\ PipelineComplete(solver) => getStageProgress(solver) = Rat(1, 1)

\* C23 amended: for a pipeline with at least one stage getStageProgress()
\* is 0 before the first step; while a stage other than the last is in
\* progress it is at least 0 and below 1, and above 0 exactly when a stage
\* has completed or the active child's progress is above 0; it is 1 once
\* every stage has completed, and below 1 in a pipeline that is solved with
\* stages remaining; it is (index + active child's progress) / stages, and
\* 1 for a pipeline without stages
C23_StageProgressFromIndexAndChild ==
    IsPipeline(solver) =>
        LET p == getStageProgress(solver)
            n == Len(solver.pipelineDef)
            c == IF HasActiveSubSolver(solver)
                 THEN ActiveSubSolver(solver).progress
                 ELSE Rat(0, 1)
        IN  /\ call.op = "new" => p = (IF n = 0 THEN Rat(1, 1) ELSE Rat(0, 1))
            /\ EarlierStageInProgress(solver) =>
                  /\ RatLeq(Rat(0, 1), p)
                  /\ RatLess(p, Rat(1, 1))
                  /\ RatLess(Rat(0, 1), p) <=>
                        \/ solver.currentPipelineStageIndex > 0
                        \/ RatLess(Rat(0, 1), c)
            /\ PipelineComplete(solver) => p = Rat(1, 1)
            /\ (solver.solved /\ ~PipelineComplete(solver)) => RatLess(p, Rat(1, 1))
            /\ n > 0 =>
                  p.num * (c.den * n)
                     = p.den * (solver.currentPipelineStageIndex * c.den + c.num)
            /\ n = 0 => p = Rat(1, 1)

\* the first of two stages is in progress and its child is half way: the
\* stage progress is a quarter
C23_Witness ==
    /\ IsPipeline(solver)
    /\ EarlierStageInProgress(solver)
    /\ solver.currentPipelineStageIndex = 0
    /\ Len(solver.pipelineDef) = 2
    /\ ActiveSubSolver(solver).progress = Rat(1, 2)
    /\ getStageProgress(solver) = Rat(1, 4)

\* C24: getStageStats() reports for every stage: completed exactly when the
\* stage's index is below the stage index; for the active stage the
\* iterations since its first-iteration marker; 0 iterations for a stage
\* not yet started; for a completed stage the span from its marker to the
\* next stage's marker, or to the pipeline's iterations if it is the last
\* stage
C24_StageStats ==
    IsPipeline(solver) =>
        \A i \in DOMAIN solver.pipelineDef :
            LET name == solver.pipelineDef[i].solverName
                stats == getStageStats(solver)[name]
                first == solver.firstIterationOfStage
            IN  /\ stats.completed <=> i - 1 < solver.currentPipelineStageIndex
                /\ solver.activeSubSolver = name =>
                      stats.iterations = solver.iterations - first[name]
                /\ ~StageStarted(solver, i) => stats.iterations = 0
                /\ (i - 1 < solver.currentPipelineStageIndex
                       /\ i < Len(solver.pipelineDef)
                       /\ StageStarted(solver, i + 1)) =>
                      stats.iterations
                         = first[solver.pipelineDef[i + 1].solverName] - first[name]
                /\ (i - 1 < solver.currentPipelineStageIndex
                       /\ i = Len(solver.pipelineDef)) =>
                      stats.iterations = solver.iterations - first[name]

\* a graphics element without its stage tag
Untagged(element) == [x \in (DOMAIN element) \ {"step"} |-> element[x]]

\* the elements of elements that carry the stage tag s, without the tag
ElementsOfStep(elements, s) ==
    LET OfStep(element) == element.step = s
        tagged == SelectSeq(elements, OfStep)
    IN  [j \in DOMAIN tagged |-> Untagged(tagged[j])]

\* whether the pipeline's visualize() forwards to the active child
Forwards(self) == ~self.solved /\ HasActiveSubSolver(self)

\* whether viz holds the elements of the visualize() of every instantiated
\* stage's child, in stage order, each tagged with its stage's index, and
\* nothing else, and whether it holds an element of every stage once every
\* stage has completed
AggregatesStages(self, viz) ==
    /\ \A k \in DOMAIN EmptyGraphics :
          /\ \A j \in DOMAIN viz[k] :
                /\ "step" \in DOMAIN viz[k][j]
                /\ viz[k][j].step + 1 \in DOMAIN self.pipelineDef
                /\ StageStarted(self, viz[k][j].step + 1)
                /\ j > 1 => viz[k][j - 1].step <= viz[k][j].step
          /\ \A i \in DOMAIN self.pipelineDef :
                StageStarted(self, i) =>
                    ElementsOfStep(viz[k], i - 1) = visualize(StageChild(self, i))[k]
    /\ PipelineComplete(self) =>
          \A i \in DOMAIN self.pipelineDef :
              \E k \in DOMAIN EmptyGraphics :
                  \E j \in DOMAIN viz[k] : viz[k][j].step = i - 1

\* C25: visualize() of a pipeline that is not solved and has an active
\* child is exactly that child's visualize(); otherwise every element of
\* the result carries the index of an instantiated stage, the elements
\* stand in stage order, and the elements of one stage are, without the
\* tag, the elements of that stage's child's visualize(); once every stage
\* has completed each stage index occurs on some element
C25_VisualizeForwardsOrAggregates ==
    IsPipeline(solver) =>
        IF Forwards(solver)
        THEN visualize(solver) = visualize(ActiveSubSolver(solver))
        ELSE AggregatesStages(solver, visualize(solver))

\* visualize() on a completed pipeline of a data processor and a validator:
\* two points of stage 0 and one text of stage 1
C25_Witness ==
    /\ call.op = "visualize"
    /\ IsPipeline(solver)
    /\ PipelineComplete(solver)
    /\ Len(solver.pipelineDef) = 2
    /\ Len(visualize(solver).points) = 2
    /\ visualize(solver).points[2].step = 0
    /\ visualize(solver).points[2].y = 4
    /\ Len(visualize(solver).texts) = 1
    /\ visualize(solver).texts[1].step = 1

\* the stages of a pipeline that have a child
StartedStages(self) == {i \in DOMAIN self.pipelineDef : StageStarted(self, i)}

\* C26 as stated, for pipelines that are solved only by completing their
\* stages: when visualize() aggregates and exactly one stage has a child,
\* the result is that child's visualize() unmodified; when no stage has a
\* child it is the empty payload
C26_SingleVisualizationUnmodified ==
    (IsPipeline(solver) /\ ~Forwards(solver)
        /\ (solver.solved => PipelineComplete(solver))) =>
        /\ \A i \in DOMAIN solver.pipelineDef :
              StartedStages(solver) = {i} =>
                  visualize(solver) = visualize(StageChild(solver, i))
        /\ StartedStages(solver) = {} => visualize(solver) = EmptyGraphics

\* whether mine is childs with every element tagged with stageIndex and
\* otherwise unchanged, element for element
IsTaggedCopy(mine, childs, stageIndex) ==
    \A k \in DOMAIN EmptyGraphics :
        /\ Len(mine[k]) = Len(childs[k])
        /\ \A j \in DOMAIN mine[k] :
              /\ "step" \in DOMAIN mine[k][j]
              /\ mine[k][j].step = stageIndex
              /\ "step" \notin DOMAIN childs[k][j]
              /\ Untagged(mine[k][j]) = childs[k][j]

\* C26 amended: when visualize() aggregates and exactly one stage has a
\* child, the result is that child's visualize() with every element tagged
\* with the stage's index and otherwise unchanged, element for element;
\* when no stage has a child it is the empty payload
C26_SingleVisualizationTagged ==
    (IsPipeline(solver) /\ ~Forwards(solver)) =>
        /\ \A i \in DOMAIN solver.pipelineDef :
              StartedStages(solver) = {i} =>
                  IsTaggedCopy(visualize(solver),
                               visualize(StageChild(solver, i)), i - 1)
        /\ StartedStages(solver) = {} =>
              \A k \in DOMAIN EmptyGraphics : visualize(solver)[k] = << >>

\* visualize() on a solved pipeline of the single stage StepOneSolver: the
\* child's one point, tagged with stage 0
C26_Witness ==
    /\ call.op = "visualize"
    /\ IsPipeline(solver)
    /\ PipelineComplete(solver)
    /\ Len(solver.pipelineDef) = 1
    /\ Len(visualize(solver).points) = 1
    /\ visualize(solver).points[1].label = "Step1"
    /\ visualize(solver).points[1].step = 0
    /\ visualize(StageChild(solver, 1)).points[1]
          = Untagged(visualize(solver).points[1])

\* whether the solver after a call is the solver before it, field for
\* field, with every child as it was and not stepped
SameSolver(before, after) ==
    /\ after = before
    /\ IsPipeline(before) =>
          \A name \in DOMAIN before.named :
              /\ after.named[name].stepRuns = before.named[name].stepRuns
              /\ after.named[name].own = before.named[name].own

StagePosition(self, stageName) ==
    LET found == {i \in DOMAIN self.pipelineDef :
                    toLowerCase(self.pipelineDef[i].solverName) = toLowerCase(stageName)}
    IN  IF found = {} THEN 0 ELSE CHOOSE i \in found : TRUE

\* the pipeline is at the start of the stage at position p: the stage is
\* current, every earlier stage's child is solved, and neither this stage's
\* child nor a later one is instantiated
AtStartOfStage(self, p) ==
    /\ self.currentPipelineStageIndex = p - 1
    /\ ~HasActiveSubSolver(self)
    /\ \A i \in 1..(p - 1) : StageStarted(self, i) /\ StageChild(self, i).solved
    /\ \A i \in p..Len(self.pipelineDef) : ~StageStarted(self, i)

\* one more step() instantiates the child of the stage at position p
NextStepInstantiates(self, p) ==
    \A t \in ClockReadings(self) : StageStarted(step(self, t).obj, p)

\* what C28 and its amendment share, of a solveUntilStage(c.stageName) that
\* took the pipeline from before to after: no step when the stage is
\* already current; otherwise every step() made counts an iteration, so
\* none is made once the pipeline is solved or failed, and the call ends at
\* the start of the stage, or earlier with the pipeline solved or failed
UntilStageSteps(before, after, c, reached) ==
    LET p == StagePosition(before, c.stageName)
    IN  /\ p = before.currentPipelineStageIndex + 1 =>
              after = before /\ c.steps = 0
        /\ (p > before.currentPipelineStageIndex + 1 /\ ~AlreadyDone(before)) =>
              /\ c.steps >= 1
              /\ after.iterations = before.iterations + c.steps
              /\ \/ AtStartOfStage(after, p) /\ reached
                 \/ /\ after.solved \/ after.failed
                    /\ after.currentPipelineStageIndex < p - 1

\* C28 as stated: solveUntilStage(name), called with the name of a stage
\* not yet reached, steps the pipeline and returns in the first state where
\* the current stage is the one named, whatever the case of name: every
\* earlier child solved, the stage's own child and every later one not
\* instantiated, the pipeline not solved, and one more step() instantiates
\* the child; or it stops earlier, as soon as the pipeline is solved or
\* failed; and it makes no step when the stage is already current
C28_SolveUntilStage ==
    [][(call'.op = "solveUntilStage" /\ IsPipeline(solver)) =>
          UntilStageSteps(solver, solver', call',
              /\ ~solver'.solved
              /\ NextStepInstantiates(solver', StagePosition(solver, call'.stageName)))]_vars

\* C28 amended: as C28_SolveUntilStage, except that the step() that reaches
\* the stage may be the one on which the pipeline's iterations reach
\* MAX_ITERATIONS: the call then returns at the start of the stage with the
\* pipeline failed, or solved when tryFinalAcceptance accepted, and one more
\* step() changes nothing; otherwise the pipeline is neither solved nor
\* failed there and one more step() instantiates the child
C28_SolveUntilStageWithinBudget ==
    [][(call'.op = "solveUntilStage" /\ IsPipeline(solver)) =>
          UntilStageSteps(solver, solver', call',
              IF solver'.iterations >= solver'.class.MAX_ITERATIONS
              THEN /\ solver'.solved \/ solver'.failed
                   /\ \A t \in ClockReadings(solver') : step(solver', t).obj = solver'
              ELSE /\ ~solver'.solved /\ ~solver'.failed
                   /\ NextStepInstantiates(solver', StagePosition(solver, call'.stageName)))]_vars

\* solveUntilStage("STEPTWOSOLVER") has stepped a pipeline of two stages
\* from its first stage to the start of stage stepTwoSolver, where it is
\* neither solved nor failed
C28_Witness ==
    /\ call.op = "solveUntilStage"
    /\ call.stageName = "STEPTWOSOLVER"
    /\ call.stageNameBefore = "stepOneSolver"
    /\ call.steps >= 2
    /\ getCurrentStageName(solver) = "stepTwoSolver"
    /\ AtStartOfStage(solver, 2)
    /\ ~solver.solved /\ ~solver.failed

\* the names of the stages whose child has been instantiated
StartedStageNames(self) ==
    {self.pipelineDef[i].solverName : i \in StartedStages(self)}

\* the names of the stages whose child has become solved
SolvedStageNames(self) ==
    {self.pipelineDef[i].solverName :
        i \in {j \in StartedStages(self) : StageChild(self, j).solved}}

\* the pipeline's iteration count on the step() that instantiates the child
\* of stage i: the first step() for the first stage, and for a later stage
\* the step() after the one in which the previous child solved, which is
\* the previous stage's own first step() and one step() for each iteration
\* of its child later
RECURSIVE IterationOfStageStart(_, _)
IterationOfStageStart(self, i) ==
    IF i = 1 THEN 1
    ELSE IterationOfStageStart(self, i - 1) + StageChild(self, i - 1).iterations + 1

\* C29: in every reachable state of a pipeline, startTimeOfStage,
\* firstIterationOfStage and timeSpentOnStage hold a key for exactly the
\* stages whose child has been instantiated and endTimeOfStage for exactly
\* the stages whose child has become solved, so none for a failed stage;
\* firstIterationOfStage[name] is the pipeline's iteration count on the
\* step() that instantiated the child; timeSpentOnStage[name] is 0 until the
\* child solves and the end time less the start time from then on; and the
\* first-iteration markers strictly increase in stage order
C29_StageMaps ==
    IsPipeline(solver) =>
        /\ DOMAIN solver.startTimeOfStage = StartedStageNames(solver)
        /\ DOMAIN solver.firstIterationOfStage = StartedStageNames(solver)
        /\ DOMAIN solver.timeSpentOnStage = StartedStageNames(solver)
        /\ DOMAIN solver.endTimeOfStage = SolvedStageNames(solver)
        /\ \A i \in StartedStages(solver) :
              LET name == solver.pipelineDef[i].solverName
              IN  /\ solver.firstIterationOfStage[name]
                        = IterationOfStageStart(solver, i)
                  /\ solver.timeSpentOnStage[name]
                        = IF name \in SolvedStageNames(solver)
                          THEN solver.endTimeOfStage[name] - solver.startTimeOfStage[name]
                          ELSE 0
                  /\ StageChild(solver, i).failed =>
                        name \notin DOMAIN solver.endTimeOfStage
                  /\ \A j \in StartedStages(solver) :
                        j < i => solver.firstIterationOfStage[solver.pipelineDef[j].solverName]
                                    < solver.firstIterationOfStage[name]

\* a pipeline has completed its first stage and started its second at a
\* later clock reading, and the second stage's child has failed: both stages
\* have a start time and a first-iteration marker, only the first has an end
\* time
C29_Witness ==
    /\ IsPipeline(solver)
    /\ StartedStages(solver) = {1, 2}
    /\ StageChild(solver, 2).failed
    /\ solver.failed
    /\ DOMAIN solver.endTimeOfStage = {"stepOneSolver"}
    /\ solver.timeSpentOnStage["stepOneSolver"] = 1
    /\ solver.firstIterationOfStage["stepTwoSolver"] > 2

(***************************************************************************)
(* getSolverChain.  The solvers are ChainSolver objects composed by hand,  *)
(* as in SolverBreadcrumbInputDownloader.test.ts: solver is the heap, the  *)
(* activeSubSolver field of each object, which is another object, null or  *)
(* undefined.  The repository defines getSolverChain twice: with a visited *)
(* set in src/lib/react/SolverBreadcrumbInputDownloader.tsx, and           *)
(* recursively in the copy of that file in src/unnamed/part_010.           *)
(***************************************************************************)
\* the objects, by the names the test gives them
ChainSolverNames == <<"solverA", "solverB", "rootSolver", "childSolver", "grandChildSolver">>

ChainSolvers == {ChainSolverNames[i] : i \in 1..MaxChainSolvers}

\* the values of an activeSubSolver field
ChainLinks == ChainSolvers \cup {Null, "undefined"}

\* new ChainSolver() for every object: the field is declared without a value
NewChainHeap == [activeSubSolver |-> [s \in ChainSolvers |-> "undefined"]]

\* the frames the call stack holds before a call throws RangeError
MaxCallStack == MaxChainSolvers + 3

\* the iterations of the while loop that are followed
ChainFuel == MaxChainSolvers + 3

RangeError == [name |-> "RangeError", message |-> "Maximum call stack size exceeded"]

\* lines 10-14 of SolverBreadcrumbInputDownloader.tsx: the while loop with
\* chain, visited and current as they are before its (n+1)-th test
RECURSIVE getSolverChainLoop(_, _, _, _, _)
getSolverChainLoop(heap, chain, visited, current, n) ==
    IF current \in ChainSolvers /\ current \notin visited
    THEN IF n >= ChainFuel
         THEN [chain |-> chain, exc |-> NoException, looping |-> TRUE]
         ELSE getSolverChainLoop(heap, Append(chain, current),
                                 visited \cup {current},
                                 IF heap.activeSubSolver[current] = Null
                                 THEN "undefined"
                                 ELSE heap.activeSubSolver[current],
                                 n + 1)
    ELSE [chain |-> chain, exc |-> NoException, looping |-> FALSE]

\* getSolverChain of SolverBreadcrumbInputDownloader.tsx, lines 5-17
getSolverChain(heap, s) == getSolverChainLoop(heap, << >>, {}, s, 0)

\* getSolverChain of part_010, lines 164-169, called with depth frames on
\* the stack: [solver] when the field is falsy, otherwise solver followed by
\* the chain of the field's object; the engine throws RangeError where the
\* stack is full
RECURSIVE getSolverChainRecursive(_, _, _)
PrependTo(r, s) ==
    IF r.exc # NoException THEN r ELSE [r EXCEPT !.chain = <<s>> \o @]

getSolverChainRecursive(heap, s, depth) ==
    IF depth >= MaxCallStack
    THEN [chain |-> << >>, exc |-> RangeError, looping |-> FALSE]
    ELSE IF heap.activeSubSolver[s] \notin ChainSolvers
    THEN [chain |-> <<s>>, exc |-> NoException, looping |-> FALSE]
    ELSE PrependTo(getSolverChainRecursive(heap, heap.activeSubSolver[s], depth + 1), s)

\* the record of a call on the heap
ChainCalled(op, s, r) ==
    [op |-> op, solver |-> s, chain |-> r.chain, exc |-> r.exc, looping |-> r.looping]

ChainInit ==
    /\ solver = NewChainHeap
    /\ call = ChainCalled("new", "solverA", [chain |-> << >>, exc |-> NoException, looping |-> FALSE])

\* a.activeSubSolver = link, assigned by the caller
AssignActiveSubSolver ==
    \E a \in ChainSolvers, link \in ChainLinks :
        /\ solver' = [solver EXCEPT !.activeSubSolver[a] = link]
        /\ call' = ChainCalled("assign", a, [chain |-> << >>, exc |-> NoException, looping |-> FALSE])

CallGetSolverChain ==
    \E s \in ChainSolvers :
        /\ call' = ChainCalled("getSolverChain", s, getSolverChain(solver, s))
        /\ solver' = solver

CallGetSolverChainRecursive ==
    \E s \in ChainSolvers :
        /\ call' = ChainCalled("getSolverChain (recursive variant)", s,
                               getSolverChainRecursive(solver, s, 0))
        /\ solver' = solver

ChainNext ==
    \/ AssignActiveSubSolver
    \/ CallGetSolverChain
    \/ CallGetSolverChainRecursive

ChainSpec == ChainInit /\ [][ChainNext]_vars

\* whether chain is what following activeSubSolver from s gives: s first,
\* every next element the activeSubSolver of the one before, no solver
\* twice, and the last element's activeSubSolver null, undefined or a
\* solver of the chain
IsChainFrom(heap, s, chain) ==
    /\ Len(chain) >= 1
    /\ chain[1] = s
    /\ \A i \in 1..(Len(chain) - 1) : chain[i + 1] = heap.activeSubSolver[chain[i]]
    /\ \A i, j \in DOMAIN chain : i # j => chain[i] # chain[j]
    /\ \/ heap.activeSubSolver[chain[Len(chain)]] \notin ChainSolvers
       \/ \E i \in DOMAIN chain : chain[i] = heap.activeSubSolver[chain[Len(chain)]]

\* whether the call recorded in c returned the chain from c.solver
ReturnedChain(heap, c) ==
    /\ c.exc = NoException
    /\ ~c.looping
    /\ IsChainFrom(heap, c.solver, c.chain)

\* C30: every call of getSolverChain(solver), of either definition the
\* repository holds, terminates and returns the solvers reached by
\* following activeSubSolver from solver, starting with solver itself and
\* ending at the first null or undefined link or before the first solver
\* already in the chain, so with no solver twice: [A, B] for the cycle
\* A -> B -> A
C30_SolverChain ==
    call.op \in {"getSolverChain", "getSolverChain (recursive variant)"} =>
        ReturnedChain(solver, call)

\* the same of the definition with the visited set alone
C30_SolverChainWithVisitedSet ==
    call.op = "getSolverChain" => ReturnedChain(solver, call)

\* the definition with the visited set has been called on the first solver
\* of the cycle solverA -> solverB -> solverA and has returned both
C30_CycleWalked ==
    /\ call.op = "getSolverChain"
    /\ solver.activeSubSolver["solverA"] = "solverB"
    /\ solver.activeSubSolver["solverB"] = "solverA"
    /\ call.solver = "solverA"
    /\ call.chain = <<"solverA", "solverB">>

(***************************************************************************)
(* The download generators (part_006).  solver is the module's state, the  *)
(* two overrides, each null (None) or a generator; a generator is what it  *)
(* returns: undefined, null, or an object whose filename and contents are  *)
(* each absent (None) or a string.                                         *)
(***************************************************************************)
\* String.prototype.replace("DemoSolver", "CustomSolver") on the default
\* filenames
ReplaceDemoSolver(s) ==
    CASE s = "DemoSolver.page.tsx" -> "CustomSolver.page.tsx"
      [] s = "DemoSolver.test.ts" -> "CustomSolver.test.ts"
      [] OTHER -> s

\* the generators registered: the two of the test, and generators that
\* return nothing, null, an empty object or empty strings
DownloadGenerators ==
    {[returns |-> r, filename |-> None, contents |-> None] : r \in {"undefined", "null"}}
    \cup {[returns |-> "object", filename |-> f, contents |-> c] :
            f \in {None, Some("replace"), Some("")},
            c \in {None, Some("// overridden page"), Some("")}}

\* the options a resolver is called with
DownloadOptions ==
    {[defaultFilename |-> f, defaultContents |-> c] :
        f \in {"DemoSolver.page.tsx", "DemoSolver.test.ts"},
        c \in {"// default page", "// default test"}}

\* override(options): None for undefined and null, otherwise the object
CallGenerator(g, options) ==
    IF g.returns # "object" THEN None
    ELSE Some([filename |-> IF g.filename = Some("replace")
                            THEN Some(ReplaceDemoSolver(options.defaultFilename))
                            ELSE g.filename,
               contents |-> g.contents])

\* a ?? b, where a is absent (None) or a value
Coalesce(a, b) == IF a = None THEN b ELSE The(a)

\* an applyOverride that takes both fields from the override as soon as it
\* provides one
applyOverrideWholesale(override, options) ==
    IF override = None \/ CallGenerator(The(override), options) = None
    THEN [filename |-> options.defaultFilename, contents |-> options.defaultContents]
    ELSE [filename |-> Coalesce(The(CallGenerator(The(override), options)).filename, ""),
          contents |-> Coalesce(The(CallGenerator(The(override), options)).contents, "")]

\* lines 23-46
applyOverride(override, options) ==
    LET resolved == [filename |-> options.defaultFilename,
                     contents |-> options.defaultContents]
    IN  IF override = None THEN resolved
        ELSE IF CallGenerator(The(override), options) = None THEN resolved
        ELSE [filename |-> Coalesce(The(CallGenerator(The(override), options)).filename,
                                    resolved.filename),
              contents |-> Coalesce(The(CallGenerator(The(override), options)).contents,
                                    resolved.contents)]

\* lines 64-66
resolvePageDownloadConfig(globals, options) ==
    applyOverride(globals.pageGeneratorOverride, options)

\* lines 68-70
resolveTestDownloadConfig(globals, options) ==
    applyOverride(globals.testGeneratorOverride, options)

\* lines 47-51: generator ?? null
setSolverPageDownloadGenerator(globals, generator) ==
    [globals EXCEPT !.pageGeneratorOverride = generator]

\* lines 53-57
setSolverTestDownloadGenerator(globals, generator) ==
    [globals EXCEPT !.testGeneratorOverride = generator]

\* lines 59-62
resetSolverDownloadGenerators(globals) ==
    [pageGeneratorOverride |-> None, testGeneratorOverride |-> None]

\* the record of a call: its options and what it returned
DownloadCalled(op, options, result) ==
    [op |-> op, options |-> options, result |-> result]

NoOptions == [defaultFilename |-> "", defaultContents |-> ""]

\* lines 20-21
DownloadInit ==
    /\ solver = [pageGeneratorOverride |-> None, testGeneratorOverride |-> None]
    /\ call = DownloadCalled("import", NoOptions, NoOptions)

\* the argument may be a generator, null or undefined
CallSetPageGenerator ==
    \E g \in {None} \cup {Some(x) : x \in DownloadGenerators} :
        /\ solver' = setSolverPageDownloadGenerator(solver, g)
        /\ call' = DownloadCalled("setSolverPageDownloadGenerator", NoOptions, NoOptions)

CallSetTestGenerator ==
    \E g \in {None} \cup {Some(x) : x \in DownloadGenerators} :
        /\ solver' = setSolverTestDownloadGenerator(solver, g)
        /\ call' = DownloadCalled("setSolverTestDownloadGenerator", NoOptions, NoOptions)

CallResetGenerators ==
    /\ solver' = resetSolverDownloadGenerators(solver)
    /\ call' = DownloadCalled("resetSolverDownloadGenerators", NoOptions, NoOptions)

CallResolvePage ==
    \E options \in DownloadOptions :
        /\ call' = DownloadCalled("resolvePageDownloadConfig", options,
                                  resolvePageDownloadConfig(solver, options))
        /\ solver' = solver

CallResolveTest ==
    \E options \in DownloadOptions :
        /\ call' = DownloadCalled("resolveTestDownloadConfig", options,
                                  resolveTestDownloadConfig(solver, options))
        /\ solver' = solver

DownloadNext ==
    \/ CallSetPageGenerator
    \/ CallSetTestGenerator
    \/ CallResetGenerators
    \/ CallResolvePage
    \/ CallResolveTest

DownloadSpec == DownloadInit /\ [][DownloadNext]_vars

\* whether config is what the claim says of a resolver whose override is
\* override: the defaults when none is registered or it returns nothing,
\* otherwise each field from the override's result when that provides it
\* and from the defaults when not
ResolvedAsStated(override, options, config) ==
    /\ override = None =>
          /\ config.filename = options.defaultFilename
          /\ config.contents = options.defaultContents
    /\ override # None =>
          LET g == The(override)
          IN  /\ config.filename =
                    IF g.returns = "object" /\ g.filename # None
                    THEN (IF The(g.filename) = "replace"
                          THEN ReplaceDemoSolver(options.defaultFilename)
                          ELSE The(g.filename))
                    ELSE options.defaultFilename
              /\ config.contents =
                    IF g.returns = "object" /\ g.contents # None
                    THEN The(g.contents)
                    ELSE options.defaultContents

\* C31: every call of resolvePageDownloadConfig and of
\* resolveTestDownloadConfig returns the default filename and contents when
\* its override is not registered (initially, after a set with null or
\* undefined, after resetSolverDownloadGenerators) and otherwise each field
\* from the override's result when it provides the field and from the
\* default when not; setting the page override changes nothing that the test
\* resolver returns, and setting the test override nothing that the page
\* resolver returns; after a reset both return the defaults
C31_DownloadConfigResolution ==
    [][/\ call'.op = "resolvePageDownloadConfig" =>
             ResolvedAsStated(solver.pageGeneratorOverride, call'.options, call'.result)
       /\ call'.op = "resolveTestDownloadConfig" =>
             ResolvedAsStated(solver.testGeneratorOverride, call'.options, call'.result)
       /\ call'.op = "setSolverPageDownloadGenerator" =>
             \A options \in DownloadOptions :
                 resolveTestDownloadConfig(solver', options)
                    = resolveTestDownloadConfig(solver, options)
       /\ call'.op = "setSolverTestDownloadGenerator" =>
             \A options \in DownloadOptions :
                 resolvePageDownloadConfig(solver', options)
                    = resolvePageDownloadConfig(solver, options)
       /\ call'.op = "resetSolverDownloadGenerators" =>
             \A options \in DownloadOptions :
                 /\ resolvePageDownloadConfig(solver', options)
                       = [filename |-> options.defaultFilename,
                          contents |-> options.defaultContents]
                 /\ resolveTestDownloadConfig(solver', options)
                       = [filename |-> options.defaultFilename,
                          contents |-> options.defaultContents]]_vars

\* with the page override renaming the file and a test override that
\* provides contents only, resolveTestDownloadConfig has returned the
\* default filename with the override's contents
C31_Witness ==
    /\ call.op = "resolveTestDownloadConfig"
    /\ solver.pageGeneratorOverride
          = Some([returns |-> "object", filename |-> Some("replace"),
                  contents |-> Some("// overridden page")])
    /\ solver.testGeneratorOverride
          = Some([returns |-> "object", filename |-> None, contents |-> Some("")])
    /\ call.options.defaultFilename = "DemoSolver.test.ts"
    /\ call.result = [filename |-> "DemoSolver.test.ts", contents |-> ""]

\* (n_1 + 1) + ... + (n_k + 1) + 1 for the first k stages of a pipeline,
\* n_i being the step() calls made on the child of stage i
RECURSIVE StepsThroughStages(_, _)
StepsThroughStages(self, k) ==
    IF k = 0 THEN 1
    ELSE StepsThroughStages(self, k - 1) + (StageChild(self, k).iterations + 1)

\* C32: a pipeline whose budget was not reached before it became solved
\* (tryFinalAcceptance never ran) is solved exactly from the step() numbered
\* (n_1 + 1) + ... + (n_k + 1) + 1 on, k being the number of its stages and
\* n_i the step() calls made on the child of stage i: it is solved only
\* with every stage complete and iterations, the number of its _step runs,
\* equal to that sum, which is 1 for a pipeline without stages; with every
\* stage complete and not yet solved it is one step() short of it
C32_StepsToSolve ==
    (IsPipeline(solver) /\ solver.acceptRuns = 0) =>
        /\ solver.solved =>
              /\ PipelineComplete(solver)
              /\ solver.iterations = StepsThroughStages(solver, Len(solver.pipelineDef))
              /\ solver.stepRuns = solver.iterations
        /\ (PipelineComplete(solver) /\ ~solver.solved) =>
              /\ solver.iterations = StepsThroughStages(solver, Len(solver.pipelineDef)) - 1
              /\ \A t \in ClockReadings(solver) : step(solver, t).obj.solved

\* a pipeline of two stages whose children took 2 and 1 steps is solved
\* after 6 step() calls
C32_Witness ==
    /\ IsPipeline(solver)
    /\ solver.solved /\ ~solver.failed
    /\ solver.acceptRuns = 0
    /\ Len(solver.pipelineDef) = 2
    /\ StageChild(solver, 1).iterations = 2
    /\ StageChild(solver, 2).iterations = 1
    /\ solver.iterations = 6

\* the next step() marks the pipeline solved and not failed, whatever the
\* clock reads
NextStepSolves(self) ==
    \A t \in ClockReadings(self) :
        step(self, t).obj.solved /\ ~step(self, t).obj.failed

\* C33 as stated: a pipeline whose currentPipelineStageIndex equals the
\* number of its stage definitions is not failed, and is solved or is marked
\* solved by the next step(), for every MAX_ITERATIONS and every number of
\* steps its children took
C33_CompletePipelineNeverFails ==
    (IsPipeline(solver)
       /\ solver.currentPipelineStageIndex = Len(solver.pipelineDef)) =>
        /\ ~solver.failed
        /\ solver.solved \/ NextStepSolves(solver)

\* C33 amended: such a pipeline is solved or is marked solved by the next
\* step(), unless the step() in which its last child solved was the
\* MAX_ITERATIONS-th: that step() already ended the pipeline, solved where
\* tryFinalAcceptance accepted and otherwise failed with "ran out of
\* iterations", and it stays failed and not solved
C33_CompletePipelineFailsOnlyOnBudget ==
    (IsPipeline(solver)
       /\ solver.currentPipelineStageIndex = Len(solver.pipelineDef)) =>
        IF solver.failed
        THEN /\ ~solver.solved
             /\ ~solver.class.acceptOnFinal
             /\ Len(solver.pipelineDef) > 0
             /\ solver.iterations = solver.MAX_ITERATIONS
             /\ solver.iterations = StepsThroughStages(solver, Len(solver.pipelineDef)) - 1
             /\ solver.error = <<solver.class.name, "ran out of iterations">>
             /\ \A t \in ClockReadings(solver) : step(solver, t).obj = solver
        ELSE solver.solved \/ NextStepSolves(solver)

\* a pipeline of two stages with MAX_ITERATIONS 6 has completed both stages
\* in 5 step() calls and is neither solved nor failed: the next step() marks
\* it solved
C33_Witness ==
    /\ IsPipeline(solver)
    /\ Len(solver.pipelineDef) = 2
    /\ solver.currentPipelineStageIndex = 2
    /\ solver.MAX_ITERATIONS = 6
    /\ solver.iterations = 5
    /\ ~solver.solved /\ ~solver.failed
    /\ NextStepSolves(solver)

\* C34: in every reachable state, of the solver and of every child a
\* pipeline has constructed, error is not null exactly when failed is true:
\* a failure by an exception of _step, by the iteration budget or by a
\* failed child always records a message, and no message is recorded
\* without a failure
C34_ErrorIffFailed ==
    \A s \in Solvers(solver) : (s.error # NullError) <=> s.failed

\* a pipeline has failed because the child of its first stage ran out of
\* iterations, and holds the child's message
C34_Witness ==
    /\ IsPipeline(solver)
    /\ solver.failed /\ ~solver.solved
    /\ StageStarted(solver, 1)
    /\ StageChild(solver, 1).failed
    /\ StageChild(solver, 1).error = <<"StepOneSolver", "ran out of iterations">>
    /\ solver.error = StageChild(solver, 1).error
    /\ solver.iterations < solver.MAX_ITERATIONS

(***************************************************************************)
(* A subclass whose _setup throws, driven through setup(), step() and      *)
(* solve()                                                                 *)
(***************************************************************************)
ThrowingSetupClasses ==
    {ThrowingSetupSolverClass(n, m, a) :
        n \in 0..MaxSetupFailures, m \in 1..MaxIterations, a \in BOOLEAN}

SetupInit ==
    /\ solver \in {New(cls, Undefined) : cls \in ThrowingSetupClasses}
    /\ call = Called("new", solver, NoException, 0, FALSE)

SetupNext ==
    \/ CallSetup
    \/ CallStep
    \/ CallSolve

SetupSpec == SetupInit /\ [][SetupNext]_vars

\* whether the hook _setup of self throws when it is run next
SetupThrows(self) == ~self._setupDone /\ _setup(self).exc # NoException

\* C35: when _setup throws in a setup(), a step() or the first step() of a
\* solve(), the call propagates that exception and leaves the solver as it
\* was but for the run of the hook: failed false, error null, iterations
\* not counted, _step not run, _setupDone false; and every later setup() or
\* step() runs _setup again, until it returns, whereupon _setupDone is true
C35_ThrowingSetup ==
    [][(call'.op \in {"setup", "step", "solve"} /\ ~solver._setupDone) =>
          /\ solver'.setupRuns = solver.setupRuns + 1
          /\ IF SetupThrows(solver)
             THEN /\ call'.exc = Error("setup failed")
                  /\ solver' = [solver EXCEPT !.setupRuns = @ + 1]
                  /\ ~solver'.failed
                  /\ solver'.error = NullError
                  /\ solver'.iterations = solver.iterations
                  /\ solver'.stepRuns = solver.stepRuns
                  /\ ~solver'._setupDone
             ELSE /\ call'.exc = NoException
                  /\ solver'._setupDone]_vars

\* a step() has propagated the exception of _setup for the second time, and
\* the solver has counted no iteration and is not failed
C35_Witness ==
    /\ call.op = "step"
    /\ call.exc = Error("setup failed")
    /\ solver.setupRuns = 2
    /\ solver.iterations = 0
    /\ solver.stepRuns = 0
    /\ ~solver.failed /\ solver.error = NullError
    /\ ~solver._setupDone

C37_ProgressNeverDecreases ==
    [][(call'.op = "step" /\ IsPipeline(solver)) =>
          /\ RatLeq(Rat(0, 1), getStageProgress(solver'))
          /\ RatLeq(getStageProgress(solver'), Rat(1, 1))
          /\ RatLeq(Rat(0, 1), solver'.progress)
          /\ RatLeq(solver'.progress, Rat(1, 1))
          /\ RatLeq(getStageProgress(solver), getStageProgress(solver'))
          /\ RatLeq(solver.progress, solver'.progress)]_vars

(***************************************************************************)
(* GenericSolverToolbar.  solver is the mounted component: its solver      *)
(* prop, the committed isAnimating state, the setIsAnimating() dispatches  *)
(* not yet rendered (the reducer is x => !x), animationRef.current (0 for  *)
(* undefined), the intervals registered with setInterval, what the last    *)
(* render committed (whether the buttons are disabled, the dependencies of *)
(* the effect of lines 98-106), whether a render is due and whether the    *)
(* effect of the last commit is still to run, and the calls made of        *)
(* onSolverStarted and onSolverCompleted.  A click is a discrete event:    *)
(* React renders and runs the effects before it returns.  A timer tick is  *)
(* not: its render and the effect of that render come later, each on its   *)
(* own, and the effect of a commit runs before the next render.            *)
(***************************************************************************)
Toolbar(s) ==
    [solver |-> s,
     isAnimating |-> FALSE,
     toggles |-> 0,
     animationRef |-> 0,
     intervals |-> {},
     nextInterval |-> 1,
     disabled |-> FALSE,
     deps |-> <<FALSE, FALSE, FALSE>>,
     renderPending |-> FALSE,
     effectPending |-> FALSE,
     effectIsAnimating |-> FALSE,
     started |-> 0,
     completed |-> 0,
     solvedBy |-> "nothing"]

\* the solver with obj in its place; solvedBy notes the handler under which
\* it became solved
WithSolver(tb, obj, by) ==
    [tb EXCEPT !.solver = obj,
               !.solvedBy = IF obj.solved /\ ~tb.solver.solved THEN by ELSE @]

\* line 21: a dispatch of the reducer x => !x
setIsAnimating(tb) == [tb EXCEPT !.toggles = @ + 1, !.renderPending = TRUE]

triggerRender(tb) == [tb EXCEPT !.renderPending = TRUE]

onSolverCompleted(tb) == [tb EXCEPT !.completed = @ + 1]

\* lines 46-49, 55-58 and 100-103
ClearAnimationRef(tb) ==
    IF tb.animationRef # 0
    THEN [tb EXCEPT !.intervals = @ \ {tb.animationRef}, !.animationRef = 0]
    ELSE tb

\* lines 24-29; an exception of step() leaves the handler before line 27
AfterHandleStep(tb, r) ==
    IF r.exc # NoException THEN WithSolver(tb, r.obj, "Step")
    ELSE triggerRender(WithSolver(tb, r.obj, "Step"))

handleStep(tb) ==
    IF AlreadyDone(tb.solver) THEN tb ELSE AfterHandleStep(tb, step(tb.solver, 0))

\* lines 36-40; an exception of solve() leaves the handler before line 37
AfterHandleSolve(tb, r) ==
    IF r.exc # NoException THEN WithSolver(tb, r.obj, "Solve")
    ELSE onSolverCompleted(triggerRender(WithSolver(tb, r.obj, "Solve")))

\* lines 31-42
handleSolve(tb) ==
    IF AlreadyDone(tb.solver) THEN tb
    ELSE AfterHandleSolve([tb EXCEPT !.started = @ + 1], solve(tb.solver, 0, 0, 0))

\* lines 54-65: the tick finds the solver solved or failed
TickWhenDone(tb) ==
    IF tb.solver.solved THEN onSolverCompleted(tb) ELSE tb

\* lines 66-67; an exception of step() leaves the callback before line 67
AfterTickStep(tb, r) ==
    IF r.exc # NoException THEN WithSolver(tb, r.obj, "Animate")
    ELSE triggerRender(WithSolver(tb, r.obj, "Animate"))

\* lines 53-68: the callback given to setInterval
IntervalCallback(tb) ==
    IF AlreadyDone(tb.solver)
    THEN TickWhenDone(triggerRender(setIsAnimating(ClearAnimationRef(tb))))
    ELSE AfterTickStep(tb, step(tb.solver, 0))

\* lines 44-70
handleAnimate(tb) ==
    IF tb.isAnimating
    THEN setIsAnimating(ClearAnimationRef(tb))
    ELSE [setIsAnimating(tb) EXCEPT !.animationRef = tb.nextInterval,
                                    !.intervals = @ \cup {tb.nextInterval},
                                    !.nextInterval = @ + 1]

\* isAnimating after the dispatched toggles
ReducedIsAnimating(tb) ==
    IF tb.toggles % 2 = 1 THEN ~tb.isAnimating ELSE tb.isAnimating

\* a render: the reducer's dispatches are applied, the buttons are disabled
\* by lines 118-147, and the effect of lines 98-106 is to run when one of
\* its dependencies (line 106) differs from the last commit's
Render(tb) ==
    [tb EXCEPT !.isAnimating = ReducedIsAnimating(tb),
               !.toggles = 0,
               !.renderPending = FALSE,
               !.disabled = AlreadyDone(tb.solver),
               !.deps = <<tb.solver.solved, tb.solver.failed, ReducedIsAnimating(tb)>>,
               !.effectPending =
                   (<<tb.solver.solved, tb.solver.failed, ReducedIsAnimating(tb)>> # tb.deps),
               !.effectIsAnimating = ReducedIsAnimating(tb)]

\* lines 98-105: the effect reads solver.solved and solver.failed as they
\* are and isAnimating as its render had it
Effect(tb) ==
    IF AlreadyDone(tb.solver) /\ tb.effectIsAnimating
    THEN setIsAnimating(ClearAnimationRef([tb EXCEPT !.effectPending = FALSE]))
    ELSE [tb EXCEPT !.effectPending = FALSE]

\* the renders and effects React runs before a click's event returns
RECURSIVE FlushSync(_)
FlushSync(tb) ==
    IF tb.effectPending THEN FlushSync(Effect(tb))
    ELSE IF tb.renderPending THEN FlushSync(Render(tb))
    ELSE tb

\* neither a render nor an effect is outstanding
Quiescent(tb) == ~tb.renderPending /\ ~tb.effectPending

\* the solvers the toolbar is mounted with
ToolbarSolvers ==
    {New(cls, Undefined) :
        cls \in {TestSolverClass(target, MaxIterations, FALSE) : target \in 1..2}
                \cup {InfiniteSolverClass(m, a) : m \in 1..2, a \in BOOLEAN}
                \cup {ErrorSolverClass(MaxIterations, FALSE)}}

ToolbarInit ==
    /\ solver \in {Toolbar(s) : s \in ToolbarSolvers}
    /\ call = [op |-> "mount"]

ClickStep ==
    /\ Quiescent(solver) /\ ~solver.disabled /\ ~solver.isAnimating
    /\ solver' = FlushSync(handleStep(solver))
    /\ call' = [op |-> "Step"]

ClickSolve ==
    /\ Quiescent(solver) /\ ~solver.disabled /\ ~solver.isAnimating
    /\ solver' = FlushSync(handleSolve(solver))
    /\ call' = [op |-> "Solve"]

ClickAnimate ==
    /\ Quiescent(solver) /\ ~solver.disabled
    /\ solver.isAnimating \/ solver.nextInterval <= MaxIntervals
    /\ solver' = FlushSync(handleAnimate(solver))
    /\ call' = [op |-> "Animate"]

TimerTick ==
    /\ solver.intervals # {}
    /\ solver' = IntervalCallback(solver)
    /\ call' = [op |-> "tick"]

ReRender ==
    /\ solver.renderPending /\ ~solver.effectPending
    /\ solver' = Render(solver)
    /\ call' = [op |-> "render"]

RunEffect ==
    /\ solver.effectPending
    /\ solver' = Effect(solver)
    /\ call' = [op |-> "effect"]

ToolbarNext ==
    \/ ClickStep
    \/ ClickSolve
    \/ ClickAnimate
    \/ TimerTick
    \/ ReRender
    \/ RunEffect

ToolbarSpec == ToolbarInit /\ [][ToolbarNext]_vars

\* C38: whenever no render and no effect is outstanding, isAnimating is true
\* exactly when an interval is registered, and the one registered is the
\* one animationRef holds; so a toolbar whose solver became solved or
\* failed under animation comes to rest with isAnimating false and no
\* interval, whatever the order of ticks, renders, effects and clicks
C38_AnimationFlagMatchesInterval ==
    Quiescent(solver) =>
        /\ solver.isAnimating <=> solver.intervals # {}
        /\ solver.intervals \subseteq {solver.animationRef}

\* C39: once the toolbar is at rest with no interval registered and its
\* solver solved under the Solve button or under the animation timer,
\* onSolverCompleted has been called exactly once, and it is never called
\* twice
C39_CompletedOnce ==
    /\ solver.completed <= 1
    /\ (/\ Quiescent(solver)
        /\ solver.intervals = {}
        /\ solver.solver.solved
        /\ solver.solvedBy \in {"Solve", "Animate"}) => solver.completed = 1

====
